---- MODULE Spec2Model ----
(***************************************************************************)
(* A model of gorm, a versioned graph store: the revision histories        *)
(* (cache.py WindowDict / FuturistWindowDict), the multi-level Cache, the  *)
(* branch genealogy and its ancestry walk (query.py active_branches), the  *)
(* engine's (branch, rev) cursor and the attribute / node mappings of the  *)
(* facade (graph.py).                                                      *)
(*                                                                         *)
(* Exceptions are modelled as results: every operation returns a record    *)
(* with a field exc ("none", "KeyError", "ValueError", "IndexError").      *)
(* Python's None (the tombstone) is the string "None".                     *)
(* The result x of a call that is used more than once is bound by          *)
(* CHOOSE out \in {e(x) : x \in {call}} : TRUE, which evaluates it once.    *)
(* The class ORM (gorm/__init__.py: the cursor's setters, is_parent_of,    *)
(* _active_branches, the facade's caches) is modelled from the             *)
(* specification.                                                          *)
(***************************************************************************)
EXTENDS Integers, Sequences, FiniteSets, TLC

\* ------------------------------------------------------------- bounds
\* Revisions range over 0..MaxRev.
MaxRev == 2
\* Number of operations performed on one engine.
MaxOps == 5
\* Number of operations in a run of the Cache (CacheSpec).
MaxCacheOps == 3
\* Number of operations in a run of one key's cache (ReadSpec).
MaxReadOps == 5
\* Number of operations on one WindowDict (WindowSpec).
MaxWindowOps == 7
\* Number of operations on one FuturistWindowDict (FuturistSpec).
MaxFuturistOps == 5

Revs == 0..MaxRev
\* Branch names a caller may assign to the cursor.
BranchNames == {"master", "b1", "b2"}
\* Attribute keys and (non-tombstone) attribute values.
Keys == {"k"}
Values == {"a", "b"}
None == "None"
\* Keys stored in the Cache of one entity.
CacheKeys == {"k", "j"}
\* Node names of the one graph modelled.
Nodes == {"n"}
\* The two nodes the edges of the graph run between; both exist at every
\* cursor
EdgeNodes == {"a", "b"}
\* The highest edge index of a multigraph
MaxIdx == 1

VARIABLES
    branch,           \* the cursor's branch (ORM.branch)
    rev,              \* the cursor's revision (ORM.rev)
    table_branches,   \* the branches table: name -> <<parent, parent_rev>>
    graph_val_cache,  \* ORM._graph_val_cache[graph]: key -> branch -> WindowDict
    nodes_cache,      \* ORM._nodes_cache[graph]: node -> branch -> WindowDict
    keys,             \* Cache.keys: key -> branch -> FuturistWindowDict
    shallow,          \* Cache.shallow: <<key, branch>> -> FuturistWindowDict
    branches,         \* Cache.branches: key -> branch -> FuturistWindowDict
    shallower,        \* Cache.shallower: <<key, branch, rev>> -> value
    keycache,         \* Cache.keycache: branch -> FuturistWindowDict of key sets
    qe_branches,      \* QueryEngine._branches: name -> <<parent, parent_rev>>
    table_graph_val,  \* the table graph_val of one graph:
                      \* <<key, branch, rev>> -> value, keys and values encoded
    graphvals2set,    \* QueryEngine._graphvals2set: rows <<key, branch, rev, value>>
    alchemist,        \* whether the QueryEngine has an Alchemist (not sqlite3)
    globl,            \* the table global: key -> value, both as stored text
    nodes2set,        \* QueryEngine._nodes2set: rows <<node, branch, rev, extant>>
    edges2set,        \* QueryEngine._edges2set: rows <<edge, branch, rev, extant>>
    nodevals2set,     \* QueryEngine._nodevals2set: rows <<key, branch, rev, value>>
    edgevals2set,     \* QueryEngine._edgevals2set: rows <<key, branch, rev, value>>
    table_graphs,     \* the table graphs: graph -> type
    table_nodes,      \* the table nodes: <<node, branch, rev>> -> extant
    table_edges,      \* the table edges: <<edge, branch, rev>> -> extant
    table_node_val,   \* the table node_val of one node
    table_edge_val,   \* the table edge_val of one edge
    issued,           \* history variable: the statements the last operation
                      \* issued, in order
    connection,       \* "open", or "closed" once connection.close() ran
    schema,           \* whether the tables exist
    kind,             \* the class of the graph: Graph, DiGraph, ...
    edges_cache,      \* ORM._edges_cache[graph]:
                      \* <<nodeA, nodeB, idx>> -> branch -> WindowDict
    ecache,           \* one EdgesCache, the edges of one graph: the fields of
                      \* a Cache keyed by <<nodeA, nodeB, idx>>, its two
                      \* keycaches and predecessors
    op,               \* the last operation and its arguments
    ret,              \* what the last operation returned
    exc,              \* the exception the last operation raised, or "none"
    ops,              \* number of operations performed
    written,          \* history variable: <<key, branch, rev>> -> the value of
                      \* the last Cache.store call for it, "raised" if it raised
    wd,               \* one WindowDict / FuturistWindowDict on its own
    stored            \* history variable: rev -> the value last set in wd

\* The edges an EdgesCache is asked about: two nodes A, one node B
CacheEdges == {<<x, "b", i>> : x \in EdgeNodes, i \in 0..MaxIdx}

vars == <<ops, branch, rev, table_branches, graph_val_cache, nodes_cache, keys,
          shallow, branches, shallower, keycache, qe_branches, op, ret, exc,
          written, wd, stored, table_graph_val, graphvals2set, alchemist, globl,
          nodes2set, edges2set, nodevals2set, edgevals2set, table_graphs,
          table_nodes, table_edges, table_node_val, table_edge_val, issued,
          connection, schema, kind, edges_cache, ecache>>

\* ------------------------------------------------------------ helpers
Last(s) == s[Len(s)]
Front(s) == SubSeq(s, 1, Len(s) - 1)
EmptyMap == [x \in {} |-> 0]
\* f with key k set to v, k added to the domain when missing (dict assignment).
Put(f, k, v) == [x \in (DOMAIN f) \cup {k} |-> IF x = k THEN v ELSE f[x]]

\* ------------------------------------------- cache.py: WindowDict
\* A history is [past, future]: two sequences of <<rev, value>>.
EmptyWindowDict == [past |-> <<>>, future |-> <<>>]

RECURSIVE seek_fwd(_, _)
seek_fwd(h, r) ==
    IF h.future # <<>> /\ Head(h.future)[1] <= r
    THEN seek_fwd([past |-> Append(h.past, Head(h.future)),
                   future |-> Tail(h.future)], r)
    ELSE h

RECURSIVE seek_back(_, _)
seek_back(h, r) ==
    IF h.past # <<>> /\ Last(h.past)[1] > r
    THEN seek_back([past |-> Front(h.past),
                    future |-> <<Last(h.past)>> \o h.future], r)
    ELSE h

\* A seek without its second loop
seek_forward_only(h, r) ==
    IF /\ h.past # <<>>
       /\ Last(h.past)[1] <= r
       /\ (h.future = <<>> \/ Head(h.future)[1] > r)
    THEN h
    ELSE seek_fwd(h, r)

\* WindowDict.seek
seek(h, r) ==
    IF /\ h.past # <<>>
       /\ Last(h.past)[1] <= r
       /\ (h.future = <<>> \/ Head(h.future)[1] > r)
    THEN h
    ELSE seek_back(seek_fwd(h, r), r)

\* WindowDict.has_exact_rev: [h, ret]
has_exact_rev(h, r) ==
    CHOOSE out \in
        {[h |-> s, ret |-> (s.past # <<>> /\ Last(s.past)[1] = r)]
         : s \in {seek(h, r)}} : TRUE

\* WindowDict.__getitem__: [h, exc, v]
WindowDict_getitem(h, r) ==
    CHOOSE out \in
        {IF s.past = <<>>
         THEN [h |-> s, exc |-> "KeyError", v |-> None]
         ELSE IF Last(s.past)[2] = None
         THEN [h |-> s, exc |-> "KeyError", v |-> None]
         ELSE [h |-> s, exc |-> "none", v |-> Last(s.past)[2]]
         : s \in {seek(h, r)}} : TRUE

\* Mapping.__contains__ of a WindowDict (rev in h): __getitem__ without KeyError
WindowDict_contains(h, r) ==
    CHOOSE out \in
        {[h |-> g.h, ret |-> (g.exc = "none")]
         : g \in {WindowDict_getitem(h, r)}} : TRUE

SetFirst(s, e) == <<e>> \o Tail(s)
SetLast(s, e) == Append(Front(s), e)

\* WindowDict.__setitem__: [h, exc]
WindowDict_setitem(h, r, v) ==
    LET e == <<r, v>>
        ok(x) == [h |-> x, exc |-> "none"]
        seekAppend == LET s == seek(h, r)
                      IN  ok([s EXCEPT !.past = Append(s.past, e)])
    IN  IF h.past = <<>> /\ h.future = <<>>
        THEN ok([h EXCEPT !.past = <<e>>])
        ELSE IF h.past = <<>>
        THEN [h |-> h, exc |-> "IndexError"]      \* self._past[0] of an empty deque
        ELSE IF r < Head(h.past)[1]
        THEN ok([h EXCEPT !.past = <<e>> \o h.past])
        ELSE IF r = Head(h.past)[1]
        THEN ok([h EXCEPT !.past = SetFirst(h.past, e)])
        ELSE IF r = Last(h.past)[1]
        THEN ok([h EXCEPT !.past = SetLast(h.past, e)])
        ELSE IF r > Last(h.past)[1]
        THEN IF h.future = <<>> \/ r < Head(h.future)[1]
             THEN ok([h EXCEPT !.past = Append(h.past, e)])
             ELSE IF r = Head(h.future)[1]
             THEN ok([h EXCEPT !.future = SetFirst(h.future, e)])
             ELSE IF r = Last(h.future)[1]
             THEN ok([h EXCEPT !.future = SetLast(h.future, e)])
             ELSE IF r > Last(h.future)[1]
             THEN ok([h EXCEPT !.future = Append(h.future, e)])
             ELSE seekAppend
        ELSE seekAppend

\* A FuturistWindowDict.__setitem__ that tests _future without the seek
FuturistWindowDict_setitem_noseek(h, r, v) ==
    LET e == <<r, v>>
        ok(x) == [h |-> x, exc |-> "none"]
    IN  IF h.past = <<>> /\ h.future = <<>>
        THEN ok([h EXCEPT !.past = <<e>>])
        ELSE IF h.future # <<>>
        THEN [h |-> h, exc |-> "ValueError"]
        ELSE IF h.past = <<>> \/ r > Last(h.past)[1]
        THEN ok([h EXCEPT !.past = Append(h.past, e)])
        ELSE IF r = Last(h.past)[1]
        THEN ok([h EXCEPT !.past = SetLast(h.past, e)])
        ELSE [h |-> h, exc |-> "ValueError"]

\* FuturistWindowDict.__setitem__: [h, exc]
FuturistWindowDict_setitem(h, r, v) ==
    LET e == <<r, v>>
        ok(x) == [h |-> x, exc |-> "none"]
    IN  IF h.past = <<>> /\ h.future = <<>>
        THEN ok([h EXCEPT !.past = <<e>>])
        ELSE CHOOSE out \in
            {IF s.future # <<>>
             THEN [h |-> s, exc |-> "ValueError"]
             ELSE IF s.past = <<>> \/ r > Last(s.past)[1]
             THEN ok([s EXCEPT !.past = Append(s.past, e)])
             ELSE IF r = Last(s.past)[1]
             THEN ok([s EXCEPT !.past = SetLast(s.past, e)])
             ELSE [h |-> s, exc |-> "ValueError"]
             : s \in {IF h.future # <<>> THEN seek(h, r) ELSE h}} : TRUE

\* WindowDict.__iter__: the stored revisions, past then future
WindowDict_iter(h) == [i \in 1..(Len(h.past) + Len(h.future)) |->
                         (h.past \o h.future)[i][1]]

\* WindowDict.__len__
WindowDict_len(h) == Len(h.past) + Len(h.future)

\* WindowDict.rev_before: [h, exc, v], v the revision as <<rev>>.
\* self._past[-1] of an empty deque raises IndexError.
rev_before(h, r) ==
    CHOOSE out \in
        {IF s.past = <<>>
         THEN [h |-> s, exc |-> "IndexError", v |-> <<>>]
         ELSE [h |-> s, exc |-> "none", v |-> <<Last(s.past)[1]>>]
         : s \in {seek(h, r)}} : TRUE

\* WindowDict.rev_after: [h, exc, v], v the revision as <<rev>>, <<>> for None
rev_after(h, r) ==
    CHOOSE out \in
        {[h |-> s, exc |-> "none",
          v |-> IF s.future # <<>> THEN <<Head(s.future)[1]>> ELSE <<>>]
         : s \in {seek(h, r)}} : TRUE

\* WindowDict.__delitem__: [h, exc].  Its first statement reads self._rev,
\* which no WindowDict has (__slots__ is _past, _future): AttributeError,
\* whatever the revision.
WindowDict_delitem(h, r) == [h |-> h, exc |-> "AttributeError"]

\* ------------------------------------------------- the branch genealogy
\* A new_branch that records the fork at revision 0 whatever the cursor's rev
new_branch_norev(tb, b, parent, parent_rev) == Put(tb, b, <<parent, 0>>)

\* QueryEngine.new_branch: the row (branch, parent, parent_rev) is inserted
new_branch(tb, b, parent, parent_rev) == Put(tb, b, <<parent, parent_rev>>)

\* A parrev that reads the wrong row: master's parent_rev, which is 0
parrev_master(tb, b) == tb["master"][2]

\* QueryEngine.parrev: the parent_rev recorded for the branch
parrev(tb, b) == tb[b][2]

\* A have_branch whose count never finds the branch
have_branch_never(tb, b) == FALSE

\* QueryEngine.have_branch
have_branch(tb, b) == b \in DOMAIN tb

\* ORM._active_branches(branch, rev): the ancestry of (b, r), from (b, r) back
\* to master through (parent, parent_rev)
RECURSIVE active_branches_of(_, _, _)
active_branches_of(tb, b, r) ==
    IF b = "master"
    THEN << <<b, r>> >>
    ELSE << <<b, r>> >> \o active_branches_of(tb, tb[b][1], tb[b][2])

\* ORM.is_parent_of(parent, child): walk the parent links up from child
RECURSIVE is_parent_of_in(_, _, _)
is_parent_of_in(tb, parent, child) ==
    IF child = "master"
    THEN FALSE
    ELSE IF tb[child][1] = parent
    THEN TRUE
    ELSE is_parent_of_in(tb, parent, tb[child][1])

\* An is_parent_of that looks at the direct parent only
is_parent_of_direct(parent, child) ==
    child # "master" /\ table_branches[child][1] = parent

is_parent_of(parent, child) == is_parent_of_in(table_branches, parent, child)

\* The outcome of assigning v to ORM.branch with the cursor at (b, r):
\* [branch, table, exc]
branch_setter(tb, b, r, v) ==
    IF ~have_branch(tb, v)
    THEN [branch |-> v, table |-> new_branch(tb, v, b, r), exc |-> "none"]
    ELSE IF r < parrev(tb, v)
    THEN [branch |-> b, table |-> tb, exc |-> "ValueError"]
    ELSE [branch |-> v, table |-> tb, exc |-> "none"]

\* ------------------------------------ graph.py: AbstractEntityMapping
\* c is the cache of one key: a function from the branches that have a
\* history (PickyDefaultDict) to their WindowDict.  walk is the ancestry of
\* the cursor; walk[1] is the cursor itself.
\* self._cache[key][self.gorm.branch][self.gorm.rev] = v : [c, exc]
cache_assign(c, gb, gr, v) ==
    LET c1 == IF gb \in DOMAIN c THEN c ELSE Put(c, gb, EmptyWindowDict)
        s  == WindowDict_setitem(c1[gb], gr, v)
    IN  [c |-> [c1 EXCEPT ![gb] = s.h], exc |-> s.exc]

\* AbstractEntityMapping.__getitem__ (caching): [c, exc, v]
RECURSIVE getitem_walk(_, _, _)
getitem_walk(c, walk, i) ==
    IF i > Len(walk)
    THEN [c |-> c, exc |-> "KeyError", v |-> None]
    ELSE LET b == walk[i][1]
             r == walk[i][2]
         IN  IF b \notin DOMAIN c
             THEN getitem_walk(c, walk, i + 1)
             ELSE LET g  == WindowDict_getitem(c[b], r)
                      c1 == [c EXCEPT ![b] = g.h]
                  IN  IF g.exc = "KeyError"
                      THEN getitem_walk(c1, walk, i + 1)
                      ELSE LET a == cache_assign(c1, walk[1][1], walk[1][2], g.v)
                           IN  IF a.exc # "none"
                               THEN [c |-> a.c, exc |-> a.exc, v |-> None]
                               ELSE IF g.v = None
                               THEN getitem_walk(a.c, walk, i + 1)
                               ELSE [c |-> a.c, exc |-> "none", v |-> g.v]

AbstractEntityMapping_getitem(c, walk) == getitem_walk(c, walk, 1)

\* AbstractEntityMapping.__contains__ (caching): [c, exc, v] with v "True"/"False"
RECURSIVE contains_walk(_, _, _)
contains_walk(c, walk, i) ==
    IF i > Len(walk)
    THEN [c |-> c, exc |-> "none", v |-> "False"]
    ELSE LET b == walk[i][1]
             r == walk[i][2]
         IN  IF b \notin DOMAIN c
             THEN contains_walk(c, walk, i + 1)
             ELSE LET g  == WindowDict_getitem(c[b], r)
                      c1 == [c EXCEPT ![b] = g.h]
                  IN  IF g.exc = "KeyError"
                      THEN contains_walk(c1, walk, i + 1)
                      ELSE LET a == cache_assign(c1, walk[1][1], walk[1][2], g.v)
                           IN  IF a.exc # "none"
                               THEN [c |-> a.c, exc |-> a.exc, v |-> None]
                               ELSE [c |-> a.c, exc |-> "none",
                                     v |-> IF g.v # None THEN "True" ELSE "False"]

AbstractEntityMapping_contains(c, walk) == contains_walk(c, walk, 1)

\* AbstractEntityMapping.__contains__ (not caching), over what the _get of
\* the mapping gave: [exc, v]
AbstractEntityMapping_contains_db(g) ==
    IF g.exc # "none"
    THEN [exc |-> g.exc, v |-> None]
    ELSE [exc |-> "none", v |-> IF g.v # None THEN "True" ELSE "False"]

\* AbstractEntityMapping.__setitem__ (caching): [c, exc]
AbstractEntityMapping_setitem(c, gb, gr, value) ==
    IF value = None
    THEN [c |-> c, exc |-> "ValueError"]
    ELSE cache_assign(c, gb, gr, value)

\* AbstractEntityMapping.__delitem__ (caching): [c, exc]
AbstractEntityMapping_delitem(c, gb, gr) == cache_assign(c, gb, gr, None)

\* ---------------------------------------- graph.py: GraphNodeMapping
\* c is the cache of one node: branch -> WindowDict of "True" / "False".
\* GraphNodeMapping.__contains__ (caching): [c, exc, v]
RECURSIVE node_contains_walk(_, _, _)
node_contains_walk(c, walk, i) ==
    IF i > Len(walk)
    THEN [c |-> c, exc |-> "none", v |-> "False"]
    ELSE LET b == walk[i][1]
             r == walk[i][2]
         IN  IF b \notin DOMAIN c
             THEN node_contains_walk(c, walk, i + 1)
             ELSE LET g  == WindowDict_getitem(c[b], r)
                      c1 == [c EXCEPT ![b] = g.h]
                  IN  IF g.exc = "KeyError"
                      THEN node_contains_walk(c1, walk, i + 1)
                      ELSE LET a == cache_assign(c1, walk[1][1], walk[1][2], g.v)
                           IN  IF a.exc # "none"
                               THEN [c |-> a.c, exc |-> a.exc, v |-> None]
                               ELSE [c |-> a.c, exc |-> "none", v |-> g.v]

GraphNodeMapping_contains(c, walk) == node_contains_walk(c, walk, 1)

\* GraphNodeMapping.__setitem__(node, {}) (caching) for a node without
\* attributes: [c, exc]
GraphNodeMapping_setitem(c, gb, gr) == cache_assign(c, gb, gr, "True")

\* GraphNodeMapping.__delitem__ (caching): [c, exc]
GraphNodeMapping_delitem(c, walk) ==
    LET m == GraphNodeMapping_contains(c, walk)
    IN  IF m.exc # "none"
        THEN [c |-> m.c, exc |-> m.exc]
        ELSE IF m.v # "True"
        THEN [c |-> m.c, exc |-> "KeyError"]
        ELSE cache_assign(m.c, walk[1][1], walk[1][2], "False")

\* ---------------------------------------------------- cache.py: Cache
\* The Cache of the attributes of one graph (store(graph, key, branch, rev,
\* value): no parent tuple, so Cache.parents is not written and both
\* _forward_keycache calls name the same keycache entry).  A cache state C is
\* [keys, branches, shallow, shallower, keycache].  walk is the ancestry
\* ORM._active_branches() yields without arguments: that of the cursor.
At(f, k, d) == IF k \in DOMAIN f THEN f[k] ELSE d

\* FuturistWindowDict of key sets: __getitem__ (a set is never None)
keyset_getitem(h, r) ==
    CHOOSE out \in
        {IF s.past = <<>>
         THEN [h |-> s, exc |-> "KeyError", v |-> {}]
         ELSE [h |-> s, exc |-> "none", v |-> Last(s.past)[2]]
         : s \in {seek(h, r)}} : TRUE

\* Cache._forward_keycache, its loop over the cursor's ancestry: [K, kc]
RECURSIVE forward_walk(_, _, _, _)
forward_walk(K, walk, i, r) ==
    IF i > Len(walk)
    THEN [K |-> K, kc |-> EmptyWindowDict]
    ELSE IF walk[i][1] \notin DOMAIN K
    THEN forward_walk(K, walk, i + 1, r)
    ELSE CHOOSE out \in
        {IF g.exc = "none"
         THEN [K |-> [K EXCEPT ![walk[i][1]] = g.h],
               kc |-> FuturistWindowDict_setitem(EmptyWindowDict, r, g.v).h]
         ELSE forward_walk([K EXCEPT ![walk[i][1]] = g.h], walk, i + 1, r)
         : g \in {keyset_getitem(K[walk[i][1]], walk[i][2])}} : TRUE

\* Cache._forward_keycache(parentity, branch, rev): the new keycache
forward_keycache(K, walk, b, r) ==
    IF b \in DOMAIN K
    THEN K
    ELSE CHOOSE out \in
        {Put(f.K, b, f.kc) : f \in {forward_walk(K, walk, 1, r)}} : TRUE

\* Cache.store lines 292-297, rev in kc: h is kc after the seek of rev.  The
\* set in force at rev, copied to rev when it was set earlier, gains or
\* loses the key: [h, exc]
keycache_mutate(h, key, r, value) ==
    LET new(S) == IF value = None THEN S \ {key} ELSE S \cup {key}
        set(x) == [h |-> [x EXCEPT !.past =
                             SetLast(x.past, <<r, new(Last(x.past)[2])>>)],
                   exc |-> "none"]
    IN  IF Last(h.past)[1] = r
        THEN set(h)
        ELSE CHOOSE out \in
            {IF c.exc # "none" THEN c ELSE set(c.h)
             : c \in {FuturistWindowDict_setitem(h, r, Last(h.past)[2])}} : TRUE

\* Cache.store, the update of the extant set kc (lines 291-299): [h, exc]
keycache_update(kc, key, r, value) ==
    CHOOSE out \in
        {IF g.exc = "none"
         THEN keycache_mutate(g.h, key, r, value)
         ELSE FuturistWindowDict_setitem(g.h, r, {key})
         : g \in {keyset_getitem(kc, r)}} : TRUE

\* Cache.store lines 280-283, the four writes of the value: [C, exc]
store_data(C, key, b, r, value) ==
    LET kk == At(C.keys, key, EmptyMap)
        s1 == FuturistWindowDict_setitem(At(kk, b, EmptyWindowDict), r, value)
        C1 == [C EXCEPT !.keys = Put(C.keys, key, Put(kk, b, s1.h))]
        s2 == FuturistWindowDict_setitem(
                  At(C.branches[key], b, EmptyWindowDict), r, value)
        C2 == [C1 EXCEPT !.branches[key] = Put(C.branches[key], b, s2.h)]
        s3 == FuturistWindowDict_setitem(
                  At(C.shallow, <<key, b>>, EmptyWindowDict), r, value)
        C3 == [C2 EXCEPT !.shallow = Put(C.shallow, <<key, b>>, s3.h)]
    IN  IF s1.exc # "none" THEN [C |-> C1, exc |-> s1.exc]
        ELSE IF s2.exc # "none" THEN [C |-> C2, exc |-> s2.exc]
        ELSE IF s3.exc # "none" THEN [C |-> C3, exc |-> s3.exc]
        ELSE [C |-> [C3 EXCEPT !.shallower = Put(C.shallower, <<key, b, r>>, value)],
              exc |-> "none"]

\* Cache.store lines 287-299 with the keycache K forwarded: [C, exc]
keycache_store(C, K, key, b, r, value) ==
    CHOOSE out \in
        {[C |-> [C EXCEPT !.keycache = [K EXCEPT ![b] = u.h]], exc |-> u.exc]
         : u \in {keycache_update(K[b], key, r, value)}} : TRUE

\* Cache.store lines 284-299: [C, exc]
store_keycache(C, walk, key, b, r, value) ==
    CHOOSE out \in
        {keycache_store(C, K, key, b, r, value)
         : K \in {forward_keycache(C.keycache, walk, b, r)}} : TRUE

\* Cache.store(graph, key, branch, rev, value): [C, exc]
Cache_store(C, walk, key, b, r, value) ==
    CHOOSE out \in
        {IF d.exc # "none"
         THEN d
         ELSE store_keycache(d.C, walk, key, b, r, value)
         : d \in {store_data(C, key, b, r, value)}} : TRUE

\* EdgesCache(gorm) just constructed.  The edges of one graph: an edge is
\* <<nodeA, nodeB, idx>>, the key of parents, keys, branches and predecessors;
\* keycache is the part of Cache.keycache keyed (graph, nodeA, nodeB, branch)
\* and nodekeycache the part keyed (nodeB, branch), both sets of idx
EmptyEdgesCache ==
    [parents |-> EmptyMap, keys |-> EmptyMap,
     branches |-> [e \in CacheEdges |-> EmptyMap],
     shallow |-> EmptyMap, shallower |-> EmptyMap,
     keycache |-> [e \in {<<x[1], x[2]>> : x \in CacheEdges} |-> EmptyMap],
     nodekeycache |-> [n \in {x[2] : x \in CacheEdges} |-> EmptyMap],
     predecessors |-> EmptyMap]

\* Cache.store line 279 under EdgesCache.store: parent is (graph, nodeA), so
\* parents is written first: [C, exc]
store_parents(C, e, b, r, value) ==
    CHOOSE out \in
        {[C |-> [C EXCEPT !.parents =
                     Put(C.parents, e, Put(At(C.parents, e, EmptyMap), b, w.h))],
          exc |-> w.exc]
         : w \in {FuturistWindowDict_setitem(
                     At(At(C.parents, e, EmptyMap), b, EmptyWindowDict),
                     r, value)}} : TRUE

\* Cache.store lines 286-299 under EdgesCache.store: the two keycaches, K1
\* that of the pair of nodes and K2 that of nodeB, both forwarded already, are
\* updated in turn: [C, exc]
store_keycaches(C, K1, K2, e, b, r, value) ==
    LET pair == <<e[1], e[2]>>
        u1 == keycache_update(K1[b], e[3], r, value)
        C1 == [C EXCEPT !.keycache[pair] = [K1 EXCEPT ![b] = u1.h],
                        !.nodekeycache[e[2]] = K2]
        u2 == keycache_update(K2[b], e[3], r, value)
        C2 == [C1 EXCEPT !.nodekeycache[e[2]] = [K2 EXCEPT ![b] = u2.h]]
    IN  IF u1.exc # "none"
        THEN [C |-> C1, exc |-> u1.exc]
        ELSE [C |-> C2, exc |-> u2.exc]

\* Cache.store(graph, nodeA, nodeB, idx, branch, rev, value): [C, exc]
Cache_store_edge(C, walk, e, b, r, value) ==
    LET p == store_parents(C, e, b, r, value)
        d == store_data(p.C, e, b, r, value)
        K1 == forward_keycache(d.C.keycache[<<e[1], e[2]>>], walk, b, r)
        K2 == forward_keycache(d.C.nodekeycache[e[2]], walk, b, r)
    IN  IF p.exc # "none" THEN p
        ELSE IF d.exc # "none" THEN d
        ELSE store_keycaches(d.C, K1, K2, e, b, r, value)

\* EdgesCache.store(graph, nodeA, nodeB, idx, branch, rev, ex): [C, exc]
EdgesCache_store(C, walk, e, b, r, ex) ==
    LET value == IF ex \in {"False", None} THEN None ELSE ex
        s == Cache_store_edge(C, walk, e, b, r, value)
        w == FuturistWindowDict_setitem(
                 At(At(s.C.predecessors, e, EmptyMap), b, EmptyWindowDict),
                 r, value)
    IN  IF s.exc # "none"
        THEN s
        ELSE [C |-> [s.C EXCEPT !.predecessors =
                        Put(s.C.predecessors, e,
                            Put(At(s.C.predecessors, e, EmptyMap), b, w.h))],
              exc |-> w.exc]

\* self.store(...) as Cache.retrieve calls it: EdgesCache.store on an
\* EdgesCache, Cache.store on a Cache
self_store(C, walk, key, b, r, value) ==
    IF "predecessors" \in DOMAIN C
    THEN EdgesCache_store(C, walk, key, b, r, value)
    ELSE Cache_store(C, walk, key, b, r, value)

\* Cache.retrieve lines 317-318, the two stores of the value found at
\* (ab, ar): [C, exc]
retrieve_backfill(C, walk, key, b, r, ab, ar, v) ==
    CHOOSE out \in
        {IF w.exc # "none"
         THEN w
         ELSE self_store(w.C, walk, key, ab, ar, v)
         : w \in {self_store(C, walk, key, b, r, v)}} : TRUE

\* Cache.retrieve, the walk of lines 314-321 over the ancestry anc of
\* (branch, rev): [C, exc]
RECURSIVE retrieve_walk(_, _, _, _, _, _, _)
retrieve_walk(C, walk, anc, i, key, b, r) ==
    IF i > Len(anc)
    THEN self_store(C, walk, key, b, r, None)
    ELSE IF anc[i][1] \notin DOMAIN C.branches[key]
    THEN retrieve_walk(C, walk, anc, i + 1, key, b, r)
    ELSE CHOOSE out \in
        {IF g.exc # "none"
         THEN [C |-> [C EXCEPT !.branches[key][anc[i][1]] = g.h], exc |-> g.exc]
         ELSE retrieve_backfill([C EXCEPT !.branches[key][anc[i][1]] = g.h],
                                walk, key, b, r, anc[i][1], anc[i][2], g.v)
         : g \in {WindowDict_getitem(C.branches[key][anc[i][1]], anc[i][2])}} : TRUE

\* Cache.retrieve line 322: [C, exc, v]
retrieve_read(C, key, b, r) ==
    CHOOSE out \in
        {IF g.exc # "none"
         THEN [C |-> [C EXCEPT !.shallow[<<key, b>>] = g.h],
               exc |-> g.exc, v |-> None]
         ELSE [C |-> [C EXCEPT !.shallow[<<key, b>>] = g.h,
                               !.shallower = Put(C.shallower, <<key, b, r>>, g.v)],
               exc |-> "none", v |-> g.v]
         : g \in {WindowDict_getitem(C.shallow[<<key, b>>], r)}} : TRUE

\* Cache.retrieve lines 313-322, rev not in shallow: [C, exc, v]
retrieve_fill(C, walk, anc, key, b, r) ==
    CHOOSE out \in
        {IF w.exc # "none"
         THEN [C |-> w.C, exc |-> w.exc, v |-> None]
         ELSE retrieve_read(w.C, key, b, r)
         : w \in {retrieve_walk(C, walk, anc, 1, key, b, r)}} : TRUE

\* Cache.retrieve(graph, key, branch, rev): [C, exc, v]
Cache_retrieve(C, walk, anc, key, b, r) ==
    IF <<key, b, r>> \in DOMAIN C.shallower
    THEN IF C.shallower[<<key, b, r>>] = None
         THEN [C |-> C, exc |-> "KeyError", v |-> None]
         ELSE [C |-> C, exc |-> "none", v |-> C.shallower[<<key, b, r>>]]
    ELSE CHOOSE out \in
        {IF m.ret
         THEN retrieve_read([C EXCEPT !.shallow = Put(C.shallow, <<key, b>>, m.h)],
                            key, b, r)
         ELSE retrieve_fill([C EXCEPT !.shallow = Put(C.shallow, <<key, b>>, m.h)],
                            walk, anc, key, b, r)
         : m \in {WindowDict_contains(At(C.shallow, <<key, b>>, EmptyWindowDict), r)}}
        : TRUE

\* Cache.iter_entities_or_keys(graph, branch, rev): [C, v] with v the set of
\* the keys yielded
iter_read(C, K, b, r) ==
    CHOOSE out \in
        {[C |-> [C EXCEPT !.keycache = [K EXCEPT ![b] = g.h]],
          v |-> IF g.exc = "none" THEN g.v ELSE {}]
         : g \in {keyset_getitem(K[b], r)}} : TRUE

Cache_iter_keys(C, walk, b, r) ==
    CHOOSE out \in
        {iter_read(C, K, b, r)
         : K \in {forward_keycache(C.keycache, walk, b, r)}} : TRUE

\* Cache.count_entities_or_keys(graph, branch, rev): [C, v]
Cache_count_keys(C, walk, b, r) ==
    CHOOSE out \in
        {[C |-> s.C, v |-> Cardinality(s.v)]
         : s \in {Cache_iter_keys(C, walk, b, r)}} : TRUE

\* Cache.contains_entity_or_key(graph, key, branch, rev): [C, v].  The exact
\* answer map is asked first, then the keys ever stored, then the extant set
Cache_contains(C, walk, key, b, r) ==
    IF <<key, b, r>> \in DOMAIN C.shallower
    THEN [C |-> C, v |-> IF C.shallower[<<key, b, r>>] # None
                          THEN "True" ELSE "False"]
    ELSE IF key \notin DOMAIN C.keys
    THEN [C |-> C, v |-> "False"]
    ELSE CHOOSE out \in
        {[C |-> s.C, v |-> IF key \in s.v THEN "True" ELSE "False"]
         : s \in {Cache_iter_keys(C, walk, b, r)}} : TRUE

\* ------------------------------------------------ query.py: QueryEngine
\* QueryEngine.parparrev: the cursor of the query, not a row of it.  The
\* cursor holds the rows (parent, parent_rev) of the branch: one row for a
\* registered branch, the name being the primary key, and none otherwise.
parparrev(tb, b) == IF b \in DOMAIN tb THEN <<tb[b]>> ELSE <<>>

\* QueryEngine.active_branches, the loop of lines 177-182 with out the pairs
\* yielded so far: [memo, exc, v].  (b, r) = self.parparrev(branch) unpacks
\* the cursor, which takes a cursor of exactly two rows.
RECURSIVE active_branches_loop(_, _, _, _)
active_branches_loop(memo, tb, b, out) ==
    IF b = "master"
    THEN [memo |-> memo, exc |-> "none", v |-> out]
    ELSE IF b \in DOMAIN memo
    THEN active_branches_loop(memo, tb, memo[b][1], Append(out, memo[b]))
    ELSE IF Len(parparrev(tb, b)) # 2
    THEN [memo |-> memo, exc |-> "ValueError", v |-> out]
    ELSE active_branches_loop(
             Put(memo, b, <<parparrev(tb, b)[1], parparrev(tb, b)[2]>>),
             tb, b, out)

\* QueryEngine.active_branches(branch, rev), run to its end: [memo, exc, v]
active_branches(memo, tb, b, r) ==
    active_branches_loop(memo, tb, b, <<<<b, r>>>>)

\* One resumption of the generator active_branches after it yielded a pair
\* of branch b (lines 177-182): [memo, exc, v], v the next pair as <<pair>>,
\* <<>> when the generator ends
active_branches_next(memo, tb, b) ==
    IF b = "master"
    THEN [memo |-> memo, exc |-> "none", v |-> <<>>]
    ELSE IF b \in DOMAIN memo
    THEN [memo |-> memo, exc |-> "none", v |-> <<memo[b]>>]
    ELSE IF Len(parparrev(tb, b)) # 2
    THEN [memo |-> memo, exc |-> "ValueError", v |-> <<>>]
    ELSE [memo |-> Put(memo, b, <<parparrev(tb, b)[1], parparrev(tb, b)[2]>>),
          exc |-> "none",
          v |-> << <<parparrev(tb, b)[1], parparrev(tb, b)[2]>> >>]

\* ------------------------------------- query.py: the value tables
\* The text a key or value is stored as: SQL NULL for None, and a text that
\* decodes to the value otherwise
NULL == <<>>
json_dump(x) == IF x = None THEN NULL ELSE <<x>>
json_load(t) == IF t = NULL THEN None ELSE t[1]

\* The insert statement of a table (graph_val_ins, node_val_ins,
\* exist_node_ins, ...) for one row <<pk, v>>: [tbl, exc].  The primary key
\* admits one row.
sql_ins(tbl, row) ==
    IF row[1] \in DOMAIN tbl
    THEN [tbl |-> tbl, exc |-> "IntegrityError"]
    ELSE [tbl |-> Put(tbl, row[1], row[2]), exc |-> "none"]

\* QueryEngine.sqlmany of an insert over rows, from row i on: [tbl, exc, n],
\* n the number of statements that went through.  With an Alchemist it reads
\* self.alchemist.many, which no Alchemist has; with sqlite3 it is executemany.
RECURSIVE executemany(_, _, _)
executemany(tbl, rows, i) ==
    IF i > Len(rows)
    THEN [tbl |-> tbl, exc |-> "none", n |-> Len(rows)]
    ELSE IF sql_ins(tbl, rows[i]).exc # "none"
    THEN [tbl |-> tbl, exc |-> sql_ins(tbl, rows[i]).exc, n |-> i - 1]
    ELSE executemany(sql_ins(tbl, rows[i]).tbl, rows, i + 1)

sqlmany(alch, tbl, rows) ==
    IF alch
    THEN [tbl |-> tbl, exc |-> "AttributeError", n |-> 0]
    ELSE executemany(tbl, rows, 1)

\* convert_arg of graph_val_ins_many (node_val_ins_many, edge_val_ins_many):
\* the row <<pk, v>> of a buffered <<key, branch, rev, value>>
convert_arg(arg) == <<<<json_dump(arg[1]), arg[2], arg[3]>>, json_dump(arg[4])>>

\* convert_arg of exist_node_many (exist_edge_many): extant is not encoded
convert_arg_exist(arg) == <<<<json_dump(arg[1]), arg[2], arg[3]>>, arg[4]>>

\* QueryEngine.graph_val_ins_many (node_val_ins_many, edge_val_ins_many)
graph_val_ins_many(alch, tbl, args) ==
    sqlmany(alch, tbl, [i \in 1..Len(args) |-> convert_arg(args[i])])

\* QueryEngine.exist_node_many (exist_edge_many)
exist_node_many(alch, tbl, args) ==
    sqlmany(alch, tbl, [i \in 1..Len(args) |-> convert_arg_exist(args[i])])

\* A flush_graph_val that takes the buffered rows for stored
flush_graph_val_skip(alch, buf, tbl) ==
    [buf |-> <<>>, tbl |-> tbl, exc |-> "none", n |-> 0]

\* QueryEngine.flush_graph_val (flush_node_val, flush_edge_val):
\* [buf, tbl, exc, n]
flush_graph_val(alch, buf, tbl) ==
    IF buf = <<>>
    THEN [buf |-> buf, tbl |-> tbl, exc |-> "none", n |-> 0]
    ELSE CHOOSE out \in
        {[buf |-> IF s.exc = "none" THEN <<>> ELSE buf,
          tbl |-> s.tbl, exc |-> s.exc, n |-> s.n]
         : s \in {graph_val_ins_many(alch, tbl, buf)}} : TRUE

\* QueryEngine.flush_nodes (flush_edges): [buf, tbl, exc, n]
flush_nodes(alch, buf, tbl) ==
    IF buf = <<>>
    THEN [buf |-> buf, tbl |-> tbl, exc |-> "none", n |-> 0]
    ELSE CHOOSE out \in
        {[buf |-> IF s.exc = "none" THEN <<>> ELSE buf,
          tbl |-> s.tbl, exc |-> s.exc, n |-> s.n]
         : s \in {exist_node_many(alch, tbl, buf)}} : TRUE

\* QueryEngine.graph_val_set (node_val_set, edge_val_set, exist_node,
\* exist_edge): the buffer with the row appended
graph_val_set(buf, k, b, r, v) == Append(buf, <<k, b, r, v>>)

\* QueryEngine.graph_val_del
graph_val_del(buf, k, b, r) == graph_val_set(buf, k, b, r, None)

\* The hi-rev join: the revision of the latest row of (k, b) at or before r,
\* as a set of zero or one revisions
hirev_graph_val_join(tbl, k, b, r) ==
    LET revs == {q \in 0..r : <<k, b, q>> \in DOMAIN tbl}
    IN  IF revs = {} THEN {} ELSE {CHOOSE q \in revs : \A p \in revs : p <= q}

\* The query graph_val_get (and edge_val_get): the rows <<value>>
sql_graph_val_get(tbl, k, b, r) ==
    IF hirev_graph_val_join(tbl, k, b, r) = {}
    THEN <<>>
    ELSE << <<tbl[<<k, b, CHOOSE q \in hirev_graph_val_join(tbl, k, b, r) : TRUE>>]>> >>

\* The query node_val_get: the latest row, when its value is not NULL
sql_node_val_get(tbl, k, b, r) ==
    IF sql_graph_val_get(tbl, k, b, r) # <<>>
       /\ sql_graph_val_get(tbl, k, b, r)[1][1] # NULL
    THEN sql_graph_val_get(tbl, k, b, r)
    ELSE <<>>

\* The keys in the order the rows of an items query come in
KeyOrder == CHOOSE s \in [1..Cardinality(Keys) -> Keys] :
                \A i, j \in 1..Cardinality(Keys) : s[i] = s[j] => i = j

\* The query graph_val_items (node_val_items, edge_val_items): the rows
\* <<key, value>>, one for every key with a row in b at or before r
sql_graph_val_items(tbl, b, r) ==
    LET F[i \in 0..Len(KeyOrder)] ==
            IF i = 0 THEN <<>>
            ELSE IF sql_graph_val_get(tbl, json_dump(KeyOrder[i]), b, r) = <<>>
            THEN F[i - 1]
            ELSE Append(F[i - 1],
                        <<json_dump(KeyOrder[i]),
                          sql_graph_val_get(tbl, json_dump(KeyOrder[i]), b, r)[1][1]>>)
    IN  F[Len(KeyOrder)]

\* QueryEngine.graph_val_get, from the pair (b, r) the generator yielded on:
\* [memo, exc, v].  The query takes branch and rev; a row is never None.
RECURSIVE graph_val_get_loop(_, _, _, _, _, _, _, _)
graph_val_get_loop(tbl, memo, tb, key, gb, gr, b, r) ==
    IF sql_graph_val_get(tbl, key, gb, gr) # <<>>
    THEN [memo |-> memo, exc |-> "none",
          v |-> json_load(sql_graph_val_get(tbl, key, gb, gr)[1][1])]
    ELSE IF active_branches_next(memo, tb, b).exc # "none"
    THEN [memo |-> memo, exc |-> active_branches_next(memo, tb, b).exc, v |-> None]
    ELSE IF active_branches_next(memo, tb, b).v = <<>>
    THEN [memo |-> memo, exc |-> "KeyError", v |-> None]
    ELSE graph_val_get_loop(tbl, active_branches_next(memo, tb, b).memo, tb,
                            key, gb, gr,
                            active_branches_next(memo, tb, b).v[1][1],
                            active_branches_next(memo, tb, b).v[1][2])

graph_val_get(tbl, memo, tb, key, gb, gr) ==
    graph_val_get_loop(tbl, memo, tb, json_dump(key), gb, gr, gb, gr)

\* QueryEngine.node_val_get: the query takes branch and rev
RECURSIVE node_val_get_loop(_, _, _, _, _, _, _, _)
node_val_get_loop(tbl, memo, tb, key, gb, gr, b, r) ==
    IF sql_node_val_get(tbl, key, gb, gr) # <<>>
    THEN IF sql_node_val_get(tbl, key, gb, gr)[1][1] = NULL
         THEN [memo |-> memo, exc |-> "KeyError", v |-> None]
         ELSE [memo |-> memo, exc |-> "none",
               v |-> json_load(sql_node_val_get(tbl, key, gb, gr)[1][1])]
    ELSE IF active_branches_next(memo, tb, b).exc # "none"
    THEN [memo |-> memo, exc |-> active_branches_next(memo, tb, b).exc, v |-> None]
    ELSE IF active_branches_next(memo, tb, b).v = <<>>
    THEN [memo |-> memo, exc |-> "KeyError", v |-> None]
    ELSE node_val_get_loop(tbl, active_branches_next(memo, tb, b).memo, tb,
                           key, gb, gr,
                           active_branches_next(memo, tb, b).v[1][1],
                           active_branches_next(memo, tb, b).v[1][2])

node_val_get(tbl, memo, tb, key, gb, gr) ==
    node_val_get_loop(tbl, memo, tb, json_dump(key), gb, gr, gb, gr)

\* QueryEngine.edge_val_get: the query takes the pair (b, r) of the walk
RECURSIVE edge_val_get_loop(_, _, _, _, _, _)
edge_val_get_loop(tbl, memo, tb, key, b, r) ==
    IF sql_graph_val_get(tbl, key, b, r) # <<>>
    THEN IF sql_graph_val_get(tbl, key, b, r)[1][1] = NULL
         THEN [memo |-> memo, exc |-> "KeyError", v |-> None]
         ELSE [memo |-> memo, exc |-> "none",
               v |-> json_load(sql_graph_val_get(tbl, key, b, r)[1][1])]
    ELSE IF active_branches_next(memo, tb, b).exc # "none"
    THEN [memo |-> memo, exc |-> active_branches_next(memo, tb, b).exc, v |-> None]
    ELSE IF active_branches_next(memo, tb, b).v = <<>>
    THEN [memo |-> memo, exc |-> "KeyError", v |-> None]
    ELSE edge_val_get_loop(tbl, active_branches_next(memo, tb, b).memo, tb, key,
                           active_branches_next(memo, tb, b).v[1][1],
                           active_branches_next(memo, tb, b).v[1][2])

edge_val_get(tbl, memo, tb, key, gb, gr) ==
    edge_val_get_loop(tbl, memo, tb, json_dump(key), gb, gr)

\* The inner loop of the key enumerations over the rows of one query, from
\* row i on: [seen, out].  A key not seen before is yielded -- when its value
\* is not None, if checked -- and every key is added to seen.
RECURSIVE yield_keys(_, _, _, _, _)
yield_keys(rows, i, seen, out, checked) ==
    IF i > Len(rows)
    THEN [seen |-> seen, out |-> out]
    ELSE yield_keys(rows, i + 1, seen \cup {rows[i][1]},
                    IF rows[i][1] \notin seen /\ (checked => rows[i][2] # NULL)
                    THEN Append(out, json_load(rows[i][1]))
                    ELSE out,
                    checked)

\* The outer loop of a key enumeration, consumed to its end, from the pair
\* (b, r) the generator yielded on: [memo, exc, v], v the keys yielded.
\* fixed: the query takes branch and rev, not the pair; checked as above.
RECURSIVE val_keys_loop(_, _, _, _, _, _, _, _, _, _)
val_keys_loop(tbl, memo, tb, gb, gr, b, r, acc, fixed, checked) ==
    IF active_branches_next(memo, tb, b).exc # "none"
    THEN [memo |-> memo, exc |-> active_branches_next(memo, tb, b).exc,
          v |-> yield_keys(sql_graph_val_items(tbl, IF fixed THEN gb ELSE b,
                                               IF fixed THEN gr ELSE r),
                           1, acc.seen, acc.out, checked).out]
    ELSE IF active_branches_next(memo, tb, b).v = <<>>
    THEN [memo |-> memo, exc |-> "none",
          v |-> yield_keys(sql_graph_val_items(tbl, IF fixed THEN gb ELSE b,
                                               IF fixed THEN gr ELSE r),
                           1, acc.seen, acc.out, checked).out]
    ELSE val_keys_loop(tbl, active_branches_next(memo, tb, b).memo, tb,
                       gb, gr,
                       active_branches_next(memo, tb, b).v[1][1],
                       active_branches_next(memo, tb, b).v[1][2],
                       yield_keys(sql_graph_val_items(tbl, IF fixed THEN gb ELSE b,
                                                      IF fixed THEN gr ELSE r),
                                  1, acc.seen, acc.out, checked),
                       fixed, checked)

\* list(QueryEngine.graph_val_keys(graph, branch, rev))
graph_val_keys(tbl, memo, tb, gb, gr) ==
    val_keys_loop(tbl, memo, tb, gb, gr, gb, gr,
                  [seen |-> {}, out |-> <<>>], FALSE, FALSE)

\* list(QueryEngine.node_val_keys(graph, node, branch, rev))
node_val_keys(tbl, memo, tb, gb, gr) ==
    val_keys_loop(tbl, memo, tb, gb, gr, gb, gr,
                  [seen |-> {}, out |-> <<>>], TRUE, TRUE)

\* list(QueryEngine.edge_val_keys(graph, nodeA, nodeB, idx, branch, rev))
edge_val_keys(tbl, memo, tb, gb, gr) ==
    val_keys_loop(tbl, memo, tb, gb, gr, gb, gr,
                  [seen |-> {}, out |-> <<>>], FALSE, FALSE)

\* ---------------------------------------------------------- the engine
\* The cache of key k / node n, and the cursor's ancestry
walk_now == active_branches_of(table_branches, branch, rev)

\* State after ORM construction and initdb on an empty store: the cursor is
\* (master, 0), master is its own parent at revision 0, every cache is empty.
InitEngine ==
    /\ branch = "master"
    /\ rev = 0
    /\ table_branches = [b \in {"master"} |-> <<"master", 0>>]
    /\ op = [name |-> "init", arg |-> ""]
    /\ ret = None
    /\ exc = "none"
    /\ ops = 0

InitFacade ==
    /\ graph_val_cache = [k \in Keys |-> EmptyMap]
    /\ nodes_cache = [n \in Nodes |-> EmptyMap]

InitCache ==
    /\ keys = EmptyMap
    /\ shallow = EmptyMap
    /\ branches = [k \in CacheKeys |-> EmptyMap]
    /\ shallower = EmptyMap
    /\ keycache = EmptyMap

\* EdgesCache.__init__
InitEdgesCache == ecache = EmptyEdgesCache

InitQuery == qe_branches = EmptyMap

InitHistory == written = EmptyMap /\ issued = <<>>

\* The store once initialised, nothing written or buffered, with an
\* Alchemist (a) or with sqlite3
InitBackend(a) ==
    /\ alchemist = a
    /\ connection = "open"
    /\ schema = TRUE
    /\ globl = [k \in {json_dump("branch"), json_dump("rev")} |->
                   IF k = json_dump("branch") THEN json_dump("master")
                   ELSE json_dump("0")]
    /\ graphvals2set = <<>>
    /\ nodes2set = <<>>
    /\ edges2set = <<>>
    /\ nodevals2set = <<>>
    /\ edgevals2set = <<>>
    /\ table_graph_val = EmptyMap
    /\ table_graphs = EmptyMap
    /\ table_nodes = EmptyMap
    /\ table_edges = EmptyMap
    /\ table_node_val = EmptyMap
    /\ table_edge_val = EmptyMap

\* A graph of class kd, no edge in its cache
InitGraph(kd) ==
    /\ kind = kd
    /\ edges_cache = [e \in EdgeNodes \X EdgeNodes \X (0..MaxIdx) |-> EmptyMap]

InitStoreOn(a) == InitBackend(a) /\ InitGraph("Graph")

\* WindowDict.__init__ without data
InitWindow == wd = EmptyWindowDict /\ stored = EmptyMap

InitRest == InitEngine /\ InitFacade /\ InitCache /\ InitQuery /\ InitHistory
            /\ InitWindow /\ InitEdgesCache

Init == InitRest /\ InitStoreOn(FALSE)

\* The same on either backend
InitAny == InitRest /\ \E a \in BOOLEAN : InitStoreOn(a)

cursorVars == <<branch, rev, table_branches>>
facadeVars == <<graph_val_cache, nodes_cache>>
gvVars == <<graphvals2set, table_graph_val>>
restVars == <<alchemist, globl, nodes2set, edges2set, nodevals2set, edgevals2set,
              table_graphs, table_nodes, table_edges, table_node_val,
              table_edge_val, issued, connection, schema, kind, edges_cache,
              ecache>>
storeVars == <<gvVars, restVars>>
cacheVars == <<keys, shallow, branches, shallower, keycache>>
windowVars == <<wd, stored>>

Done(name, arg, r, e) ==
    /\ op' = [name |-> name, arg |-> arg]
    /\ ret' = r
    /\ exc' = e
    /\ ops' = ops + 1

\* engine.rev = r
SetRev(r) ==
    /\ ops < MaxOps
    /\ rev' = r
    /\ UNCHANGED <<branch, table_branches>>
    /\ Done("rev", "", None, "none")

\* engine.branch = v
SetBranch(v) ==
    /\ ops < MaxOps
    /\ LET s == branch_setter(table_branches, branch, rev, v)
       IN  /\ branch' = s.branch
           /\ table_branches' = s.table
           /\ Done("branch", v, None, s.exc)
    /\ UNCHANGED rev

\* g.graph[k] = v
SetItem(k, v) ==
    /\ ops < MaxOps
    /\ LET s == AbstractEntityMapping_setitem(graph_val_cache[k], branch, rev, v)
       IN  /\ graph_val_cache' = [graph_val_cache EXCEPT ![k] = s.c]
           /\ Done("setitem", k, v, s.exc)
    /\ graphvals2set' = IF v = None THEN graphvals2set
                        ELSE graph_val_set(graphvals2set, k, branch, rev, v)
    /\ UNCHANGED table_graph_val
    /\ UNCHANGED nodes_cache

\* del g.graph[k]
DelItem(k) ==
    /\ ops < MaxOps
    /\ LET s == AbstractEntityMapping_delitem(graph_val_cache[k], branch, rev)
       IN  /\ graph_val_cache' = [graph_val_cache EXCEPT ![k] = s.c]
           /\ Done("delitem", k, None, s.exc)
    /\ graphvals2set' = graph_val_del(graphvals2set, k, branch, rev)
    /\ UNCHANGED table_graph_val
    /\ UNCHANGED nodes_cache

\* g.graph[k]
GetItem(k) ==
    /\ ops < MaxOps
    /\ LET s == AbstractEntityMapping_getitem(graph_val_cache[k], walk_now)
       IN  /\ graph_val_cache' = [graph_val_cache EXCEPT ![k] = s.c]
           /\ Done("getitem", k, s.v, s.exc)
    /\ UNCHANGED <<nodes_cache, gvVars>>

\* k in g.graph
Contains(k) ==
    /\ ops < MaxOps
    /\ LET s == AbstractEntityMapping_contains(graph_val_cache[k], walk_now)
       IN  /\ graph_val_cache' = [graph_val_cache EXCEPT ![k] = s.c]
           /\ Done("contains", k, s.v, s.exc)
    /\ UNCHANGED <<nodes_cache, gvVars>>

\* g.node[n] = {}
NodeSetItem(n) ==
    /\ ops < MaxOps
    /\ LET s == GraphNodeMapping_setitem(nodes_cache[n], branch, rev)
       IN  /\ nodes_cache' = [nodes_cache EXCEPT ![n] = s.c]
           /\ Done("node_setitem", n, None, s.exc)
    /\ UNCHANGED <<graph_val_cache, gvVars>>

\* del g.node[n]
NodeDelItem(n) ==
    /\ ops < MaxOps
    /\ LET s == GraphNodeMapping_delitem(nodes_cache[n], walk_now)
       IN  /\ nodes_cache' = [nodes_cache EXCEPT ![n] = s.c]
           /\ Done("node_delitem", n, None, s.exc)
    /\ UNCHANGED <<graph_val_cache, gvVars>>

\* n in g.node
NodeContains(n) ==
    /\ ops < MaxOps
    /\ LET s == GraphNodeMapping_contains(nodes_cache[n], walk_now)
       IN  /\ nodes_cache' = [nodes_cache EXCEPT ![n] = s.c]
           /\ Done("node_contains", n, s.v, s.exc)
    /\ UNCHANGED <<graph_val_cache, gvVars>>

CursorStep ==
    /\ \/ \E r \in Revs : SetRev(r)
       \/ \E v \in BranchNames : SetBranch(v)
    /\ UNCHANGED <<facadeVars, cacheVars, qe_branches, written, windowVars, storeVars>>

AttrStep ==
    /\ \/ \E k \in Keys, v \in Values : SetItem(k, v)
       \/ \E k \in Keys : DelItem(k)
       \/ \E k \in Keys : GetItem(k)
       \/ \E k \in Keys : Contains(k)
    /\ UNCHANGED <<cursorVars, cacheVars, qe_branches, written, windowVars, restVars>>

NodeStep ==
    /\ \/ \E n \in Nodes : NodeSetItem(n)
       \/ \E n \in Nodes : NodeDelItem(n)
       \/ \E n \in Nodes : NodeContains(n)
    /\ UNCHANGED <<cursorVars, cacheVars, qe_branches, written, windowVars, restVars>>

Next == CursorStep \/ AttrStep \/ NodeStep

\* The engine with its cursor and the facade's mappings
Spec == Init /\ [][Next]_vars

\* ------------------------------------------------- the Cache in use
CacheState == [keys |-> keys, branches |-> branches, shallow |-> shallow,
               shallower |-> shallower, keycache |-> keycache]

SetCache(C) ==
    /\ keys' = C.keys
    /\ branches' = C.branches
    /\ shallow' = C.shallow
    /\ shallower' = C.shallower
    /\ keycache' = C.keycache

\* cache.store(graph, k, b, r, v).  written remembers what the caller stored:
\* the value of a store that returned, "raised" for one that did not
StoreOp(k, b, r, v) ==
    \E s \in {Cache_store(CacheState, walk_now, k, b, r, v)} :
        /\ SetCache(s.C)
        /\ written' = Put(written, <<k, b, r>>,
                          IF s.exc = "none" THEN v ELSE "raised")
        /\ Done("store", k, v, s.exc)

Store(k, b, r, v) == ops < MaxCacheOps /\ StoreOp(k, b, r, v)

\* cache.retrieve(graph, k, b, r)
RetrieveOp(k, b, r) ==
    /\ \E s \in {Cache_retrieve(CacheState, walk_now,
                                active_branches_of(table_branches, b, r),
                                k, b, r)} :
           /\ SetCache(s.C)
           /\ Done("retrieve", k, s.v, s.exc)
    /\ UNCHANGED written

Retrieve(k, b, r) == ops < MaxCacheOps /\ RetrieveOp(k, b, r)

\* list(cache.iter_keys(graph, b, r))
IterKeys(b, r) ==
    /\ ops < MaxCacheOps
    /\ \E s \in {Cache_iter_keys(CacheState, walk_now, b, r)} :
           /\ SetCache(s.C)
           /\ Done("iter_keys", b, s.v, "none")
    /\ UNCHANGED written

\* cache.count_keys(graph, b, r)
CountKeys(b, r) ==
    /\ ops < MaxCacheOps
    /\ \E s \in {Cache_count_keys(CacheState, walk_now, b, r)} :
           /\ SetCache(s.C)
           /\ Done("count_keys", b, s.v, "none")
    /\ UNCHANGED written

\* cache.contains_key(graph, k, b, r)
ContainsKey(k, b, r) ==
    /\ ops < MaxCacheOps
    /\ \E s \in {Cache_contains(CacheState, walk_now, k, b, r)} :
           /\ SetCache(s.C)
           /\ Done("contains_key", k, s.v, "none")
    /\ UNCHANGED written

CacheStep ==
    /\ \/ \E k \in CacheKeys, b \in DOMAIN table_branches, r \in Revs,
             v \in Values \cup {None} : Store(k, b, r, v)
       \/ \E k \in CacheKeys, b \in DOMAIN table_branches, r \in Revs :
             Retrieve(k, b, r)
       \/ \E b \in DOMAIN table_branches, r \in Revs : IterKeys(b, r)
       \/ \E b \in DOMAIN table_branches, r \in Revs : CountKeys(b, r)
       \/ \E k \in CacheKeys, b \in DOMAIN table_branches, r \in Revs :
             ContainsKey(k, b, r)
    /\ UNCHANGED <<cursorVars, facadeVars, qe_branches, windowVars, storeVars>>

\* The cursor moves between the cache's operations, within their budget
CacheCursorStep == ops < MaxCacheOps /\ CursorStep

CacheNext == CacheCursorStep \/ CacheStep

\* The engine's cursor and one Cache
CacheSpec == Init /\ [][CacheNext]_vars

\* ------------------------------------------- the QueryEngine in use
\* list(engine.db.active_branches(b, r))
ActiveBranches(b, r) ==
    /\ ops < MaxOps
    /\ \E s \in {active_branches(qe_branches, table_branches, b, r)} :
           /\ qe_branches' = s.memo
           /\ Done("active_branches", b, s.v, s.exc)

QueryStep ==
    /\ \E b \in DOMAIN table_branches, r \in Revs : ActiveBranches(b, r)
    /\ UNCHANGED <<cursorVars, facadeVars, cacheVars, written, windowVars, storeVars>>

QueryNext == CursorStep \/ QueryStep

\* The engine's cursor and the QueryEngine's ancestry walk
QuerySpec == Init /\ [][QueryNext]_vars

\* ------------------------------------- one key's cache across branches
\* The cursor and the cache of the single key "k", over the branches master
\* and b1: long enough runs for a retrieve to follow a store that follows a
\* retrieve
ReadStep ==
    /\ ops < MaxReadOps
    /\ \/ \E r \in Revs : SetRev(r)
       \/ \E v \in {"master", "b1"} : SetBranch(v)
    /\ UNCHANGED <<facadeVars, cacheVars, qe_branches, written, windowVars, storeVars>>

ReadCacheStep ==
    /\ ops < MaxReadOps
    /\ \/ \E b \in DOMAIN table_branches, r \in Revs, v \in Values :
             StoreOp("k", b, r, v)
       \/ \E b \in DOMAIN table_branches, r \in Revs : RetrieveOp("k", b, r)
    /\ UNCHANGED <<cursorVars, facadeVars, qe_branches, windowVars, storeVars>>

ReadNext == ReadStep \/ ReadCacheStep

ReadSpec == Init /\ [][ReadNext]_vars

\* ------------------------------------------- the value tables in use
\* The persistence reads, at the cursor: the flush f of the table's buffer,
\* then the queries s when the flush went through
DbRead(name, k, f, s) ==
    /\ ops < MaxOps
    /\ graphvals2set' = f.buf
    /\ table_graph_val' = f.tbl
    /\ qe_branches' = s.memo
    /\ Done(name, k, s.v, s.exc)

\* What a read gives when its flush raised
FlushRaised(f, v) == [memo |-> qe_branches, exc |-> f.exc, v |-> v]

\* engine.db.graph_val_get(graph, k, engine.branch, engine.rev)
GraphValGet(k) ==
    \E f \in {flush_graph_val(alchemist, graphvals2set, table_graph_val)} :
    \E s \in {IF f.exc # "none" THEN FlushRaised(f, None)
              ELSE graph_val_get(f.tbl, qe_branches, table_branches,
                                 k, branch, rev)} :
        DbRead("graph_val_get", k, f, s)

\* engine.db.node_val_get(graph, node, k, engine.branch, engine.rev)
NodeValGet(k) ==
    \E f \in {flush_graph_val(alchemist, graphvals2set, table_graph_val)} :
    \E s \in {IF f.exc # "none" THEN FlushRaised(f, None)
              ELSE node_val_get(f.tbl, qe_branches, table_branches,
                                k, branch, rev)} :
        DbRead("node_val_get", k, f, s)

\* engine.db.edge_val_get(graph, nodeA, nodeB, idx, k, engine.branch, engine.rev)
EdgeValGet(k) ==
    \E f \in {flush_graph_val(alchemist, graphvals2set, table_graph_val)} :
    \E s \in {IF f.exc # "none" THEN FlushRaised(f, None)
              ELSE edge_val_get(f.tbl, qe_branches, table_branches,
                                k, branch, rev)} :
        DbRead("edge_val_get", k, f, s)

\* list(engine.db.graph_val_keys(graph, engine.branch, engine.rev))
GraphValKeys ==
    \E f \in {flush_graph_val(alchemist, graphvals2set, table_graph_val)} :
    \E s \in {IF f.exc # "none" THEN FlushRaised(f, <<>>)
              ELSE graph_val_keys(f.tbl, qe_branches, table_branches,
                                  branch, rev)} :
        DbRead("graph_val_keys", "", f, s)

\* list(engine.db.node_val_keys(graph, node, engine.branch, engine.rev))
NodeValKeys ==
    \E f \in {flush_graph_val(alchemist, graphvals2set, table_graph_val)} :
    \E s \in {IF f.exc # "none" THEN FlushRaised(f, <<>>)
              ELSE node_val_keys(f.tbl, qe_branches, table_branches,
                                 branch, rev)} :
        DbRead("node_val_keys", "", f, s)

\* list(engine.db.edge_val_keys(graph, nodeA, nodeB, idx, engine.branch, engine.rev))
EdgeValKeys ==
    \E f \in {flush_graph_val(alchemist, graphvals2set, table_graph_val)} :
    \E s \in {IF f.exc # "none" THEN FlushRaised(f, <<>>)
              ELSE edge_val_keys(f.tbl, qe_branches, table_branches,
                                 branch, rev)} :
        DbRead("edge_val_keys", "", f, s)

\* k in mapping, caching disabled: of the graph's mapping, of a node's and
\* of an edge's, each over its table's getter
ContainsDb(m, k) ==
    \E f \in {flush_graph_val(alchemist, graphvals2set, table_graph_val)} :
    \E g \in {IF f.exc # "none" THEN FlushRaised(f, None)
              ELSE IF m = "graph"
              THEN graph_val_get(f.tbl, qe_branches, table_branches, k, branch, rev)
              ELSE IF m = "node"
              THEN node_val_get(f.tbl, qe_branches, table_branches, k, branch, rev)
              ELSE edge_val_get(f.tbl, qe_branches, table_branches, k, branch, rev)} :
        DbRead("contains_db", k, f,
               [memo |-> g.memo,
                exc |-> AbstractEntityMapping_contains_db(g).exc,
                v |-> AbstractEntityMapping_contains_db(g).v])

\* m[k] = None
SetItemNone(k) == SetItem(k, None)

AttrNoneStep ==
    /\ \E k \in Keys : SetItemNone(k)
    /\ UNCHANGED <<cursorVars, cacheVars, qe_branches, written, windowVars, restVars>>

PersistStep ==
    /\ \/ \E k \in Keys : GraphValGet(k)
       \/ \E m \in {"graph", "node", "edge"}, k \in Keys : ContainsDb(m, k)
       \/ \E k \in Keys : NodeValGet(k)
       \/ \E k \in Keys : EdgeValGet(k)
       \/ GraphValKeys
       \/ NodeValKeys
       \/ EdgeValKeys
    /\ UNCHANGED <<cursorVars, facadeVars, cacheVars, written, windowVars, restVars>>

PersistNext == CursorStep \/ AttrStep \/ AttrNoneStep \/ PersistStep

\* The engine's cursor, an entity's mapping and the reads of its value table
PersistSpec == InitAny /\ [][PersistNext]_vars

\* ------------------------------------------- one WindowDict in use
\* wd[r] = v
WSet(r, v) ==
    /\ ops < MaxWindowOps
    /\ \E s \in {WindowDict_setitem(wd, r, v)} :
           /\ wd' = s.h
           /\ stored' = IF s.exc = "none" THEN Put(stored, r, v) ELSE stored
           /\ Done("wd_set", r, v, s.exc)

\* wd[r]
WGet(r) ==
    /\ ops < MaxWindowOps
    /\ \E s \in {WindowDict_getitem(wd, r)} :
           /\ wd' = s.h
           /\ Done("wd_get", r, s.v, s.exc)
    /\ UNCHANGED stored

\* wd.seek(r)
WSeek(r) ==
    /\ ops < MaxWindowOps
    /\ wd' = seek(wd, r)
    /\ Done("wd_seek", r, None, "none")
    /\ UNCHANGED stored

\* wd.has_exact_rev(r)
WHasExact(r) ==
    /\ ops < MaxWindowOps
    /\ \E s \in {has_exact_rev(wd, r)} :
           /\ wd' = s.h
           /\ Done("wd_has_exact_rev", r, IF s.ret THEN "True" ELSE "False", "none")
    /\ UNCHANGED stored

\* del wd[r]
WDel(r) ==
    /\ ops < MaxWindowOps
    /\ \E s \in {WindowDict_delitem(wd, r)} :
           /\ wd' = s.h
           /\ stored' = IF s.exc = "none"
                        THEN [q \in (DOMAIN stored) \ {r} |-> stored[q]]
                        ELSE stored
           /\ Done("wd_del", r, None, s.exc)

\* wd.rev_before(r)
WRevBefore(r) ==
    /\ ops < MaxWindowOps
    /\ \E s \in {rev_before(wd, r)} :
           /\ wd' = s.h
           /\ Done("wd_rev_before", r, s.v, s.exc)
    /\ UNCHANGED stored

\* wd.rev_after(r)
WRevAfter(r) ==
    /\ ops < MaxWindowOps
    /\ \E s \in {rev_after(wd, r)} :
           /\ wd' = s.h
           /\ Done("wd_rev_after", r, s.v, s.exc)
    /\ UNCHANGED stored

WindowStep ==
    /\ \/ \E r \in Revs, v \in Values \cup {None} : WSet(r, v)
       \/ \E r \in Revs : WGet(r)
       \/ \E r \in Revs : WSeek(r)
       \/ \E r \in Revs : WHasExact(r)
       \/ \E r \in Revs : WDel(r)
       \/ \E r \in Revs : WRevBefore(r)
       \/ \E r \in Revs : WRevAfter(r)
    /\ UNCHANGED <<cursorVars, facadeVars, cacheVars, qe_branches, written, storeVars>>

\* One WindowDict under sets, lookups, seeks and deletions
WindowSpec == Init /\ [][WindowStep]_vars

\* The same WindowDict in shorter runs
MaxSeekOps == 5

SeekStep ==
    /\ ops < MaxSeekOps
    /\ WindowStep

SeekSpec == Init /\ [][SeekStep]_vars

\* fwd[r] = v on a FuturistWindowDict
FSet(r, v) ==
    /\ ops < MaxFuturistOps
    /\ \E s \in {FuturistWindowDict_setitem(wd, r, v)} :
           /\ wd' = s.h
           /\ stored' = IF s.exc = "none" THEN Put(stored, r, v) ELSE stored
           /\ Done("fwd_set", r, v, s.exc)

\* fwd[r]: the lookup a FuturistWindowDict inherits
FGet(r) ==
    /\ ops < MaxFuturistOps
    /\ \E s \in {WindowDict_getitem(wd, r)} :
           /\ wd' = s.h
           /\ Done("fwd_get", r, s.v, s.exc)
    /\ UNCHANGED stored

FuturistStep ==
    /\ \/ \E r \in Revs, v \in Values \cup {None} : FSet(r, v)
       \/ \E r \in Revs : FGet(r)
    /\ UNCHANGED <<cursorVars, facadeVars, cacheVars, qe_branches, written, storeVars>>

\* One FuturistWindowDict under sets and lookups
FuturistSpec == Init /\ [][FuturistStep]_vars

\* ------------------------------ query.py: the five buffers and their tables
\* Operations on the QueryEngine in one run
MaxStoreOps == 3

\* The branched tables, in the order QueryEngine.flush goes through them
FlushOrder == <<"nodes", "edges", "graph_val", "node_val", "edge_val">>
Tables == {FlushOrder[i] : i \in 1..Len(FlushOrder)}
ValueTables == {"graph_val", "node_val", "edge_val"}
\* The entity read in each table: a key of the graph, of its node, of its
\* edge; the node; the edge
StoreKey == "k"
\* The entities written in table t
KeysOf(t) == IF t \in {"graph_val", "nodes"} THEN {"k", "j"} ELSE {"k"}

BufOf(t) ==
    IF t = "nodes" THEN nodes2set
    ELSE IF t = "edges" THEN edges2set
    ELSE IF t = "graph_val" THEN graphvals2set
    ELSE IF t = "node_val" THEN nodevals2set
    ELSE edgevals2set

TblOf(t) ==
    IF t = "nodes" THEN table_nodes
    ELSE IF t = "edges" THEN table_edges
    ELSE IF t = "graph_val" THEN table_graph_val
    ELSE IF t = "node_val" THEN table_node_val
    ELSE table_edge_val

Bufs == [t \in Tables |-> BufOf(t)]
Tbls == [t \in Tables |-> TblOf(t)]

\* The buffers and the tables become bufs and tbls
SetStore(bufs, tbls) ==
    /\ nodes2set' = bufs["nodes"]
    /\ edges2set' = bufs["edges"]
    /\ graphvals2set' = bufs["graph_val"]
    /\ nodevals2set' = bufs["node_val"]
    /\ edgevals2set' = bufs["edge_val"]
    /\ table_nodes' = tbls["nodes"]
    /\ table_edges' = tbls["edges"]
    /\ table_graph_val' = tbls["graph_val"]
    /\ table_node_val' = tbls["node_val"]
    /\ table_edge_val' = tbls["edge_val"]

\* The statements of an executemany of which the first n went through
Stmts(t, rows, n) == [i \in 1..n |-> <<t, rows[i]>>]

\* bool(x) of a stored extant
bool(x) == IF x = "True" THEN "True" ELSE "False"

\* QueryEngine.node_exists, from the pair (b, r) of the walk: [memo, exc, v]
RECURSIVE node_exists_loop(_, _, _, _, _, _)
node_exists_loop(tbl, memo, tb, node, b, r) ==
    IF sql_graph_val_get(tbl, node, b, r) # <<>>
    THEN [memo |-> memo, exc |-> "none",
          v |-> bool(sql_graph_val_get(tbl, node, b, r)[1][1])]
    ELSE IF active_branches_next(memo, tb, b).exc # "none"
    THEN [memo |-> memo, exc |-> active_branches_next(memo, tb, b).exc, v |-> None]
    ELSE IF active_branches_next(memo, tb, b).v = <<>>
    THEN [memo |-> memo, exc |-> "none", v |-> "False"]
    ELSE node_exists_loop(tbl, active_branches_next(memo, tb, b).memo, tb, node,
                          active_branches_next(memo, tb, b).v[1][1],
                          active_branches_next(memo, tb, b).v[1][2])

node_exists(tbl, memo, tb, node, gb, gr) ==
    node_exists_loop(tbl, memo, tb, json_dump(node), gb, gr)

\* QueryEngine.edge_exists: the query selects the one column extant, and the
\* method takes row[1]
RECURSIVE edge_exists_loop(_, _, _, _, _, _)
edge_exists_loop(tbl, memo, tb, edge, b, r) ==
    IF sql_graph_val_get(tbl, edge, b, r) # <<>>
    THEN [memo |-> memo, exc |-> "IndexError", v |-> None]
    ELSE IF active_branches_next(memo, tb, b).exc # "none"
    THEN [memo |-> memo, exc |-> active_branches_next(memo, tb, b).exc, v |-> None]
    ELSE IF active_branches_next(memo, tb, b).v = <<>>
    THEN [memo |-> memo, exc |-> "none", v |-> "False"]
    ELSE edge_exists_loop(tbl, active_branches_next(memo, tb, b).memo, tb, edge,
                          active_branches_next(memo, tb, b).v[1][1],
                          active_branches_next(memo, tb, b).v[1][2])

edge_exists(tbl, memo, tb, edge, gb, gr) ==
    edge_exists_loop(tbl, memo, tb, json_dump(edge), gb, gr)

\* The flush method of table t over its buffer and table
flush_table(alch, t, buf, tbl) ==
    IF t \in ValueTables
    THEN flush_graph_val(alch, buf, tbl)
    ELSE flush_nodes(alch, buf, tbl)

\* QueryEngine.flush from the i-th table on: [buf, tbl, exc, issued].  The
\* first flush that raises ends it.
RECURSIVE flush_from(_, _, _, _, _)
flush_from(alch, bufs, tbls, i, stmts) ==
    IF i > Len(FlushOrder)
    THEN [buf |-> bufs, tbl |-> tbls, exc |-> "none", issued |-> stmts]
    ELSE CHOOSE out \in
        {IF f.exc # "none"
         THEN [buf |-> [bufs EXCEPT ![FlushOrder[i]] = f.buf],
               tbl |-> [tbls EXCEPT ![FlushOrder[i]] = f.tbl],
               exc |-> f.exc,
               issued |-> stmts \o Stmts(FlushOrder[i], bufs[FlushOrder[i]], f.n)]
         ELSE flush_from(alch,
                         [bufs EXCEPT ![FlushOrder[i]] = f.buf],
                         [tbls EXCEPT ![FlushOrder[i]] = f.tbl],
                         i + 1,
                         stmts \o Stmts(FlushOrder[i], bufs[FlushOrder[i]], f.n))
         : f \in {flush_table(alch, FlushOrder[i], bufs[FlushOrder[i]],
                              tbls[FlushOrder[i]])}} : TRUE

\* A flush that empties the buffers and issues nothing
flush_forget(alch, bufs, tbls) ==
    [buf |-> [t \in Tables |-> <<>>], tbl |-> tbls, exc |-> "none",
     issued |-> <<>>]

\* QueryEngine.flush
flush(alch, bufs, tbls) == flush_from(alch, bufs, tbls, 1, <<>>)

\* QueryEngine.commit: [buf, tbl, exc, issued]
commit(alch, bufs, tbls) ==
    CHOOSE out \in
        {[buf |-> f.buf, tbl |-> f.tbl, exc |-> f.exc,
          issued |-> IF f.exc = "none"
                     THEN Append(f.issued, <<"commit", <<>>>>)
                     ELSE f.issued]
         : f \in {flush(alch, bufs, tbls)}} : TRUE

\* QueryEngine.close: [buf, tbl, exc, issued, connection].  Only the sqlite3
\* engine has a connection attribute.
close(alch, bufs, tbls) ==
    CHOOSE out \in
        {[buf |-> c.buf, tbl |-> c.tbl, exc |-> c.exc,
          issued |-> IF c.exc = "none" /\ ~alch
                     THEN Append(c.issued, <<"close", <<>>>>)
                     ELSE c.issued,
          connection |-> IF c.exc = "none" /\ ~alch THEN "closed" ELSE "open"]
         : c \in {commit(alch, bufs, tbls)}} : TRUE

\* QueryEngine.del_graph: [edge_val, exc, issued].  Its second statement,
\* del_edge_graph, is neither a method of Alchemist nor a key of the strings.
del_graph(alch, tbls) ==
    [edge_val |-> EmptyMap,
     exc |-> IF alch THEN "AttributeError" ELSE "KeyError",
     issued |-> << <<"del_edge_val_graph", <<>>>> >>]

storeRestVars == <<cursorVars, facadeVars, cacheVars, written, windowVars,
                   alchemist, globl, schema, kind, edges_cache, ecache>>

StoreDone(name, arg, r, e, stmts) ==
    /\ ops < MaxStoreOps
    /\ connection = "open"
    /\ issued' = stmts
    /\ Done(name, arg, r, e)

\* The enqueueing methods: the row goes to the end of the table's buffer
Enqueue(name, t, k, v) ==
    /\ SetStore([Bufs EXCEPT ![t] = graph_val_set(Bufs[t], k, branch, rev, v)],
                Tbls)
    /\ StoreDone(name, <<t, k, v>>, None, "none", <<>>)
    /\ UNCHANGED <<qe_branches, table_graphs, connection>>

\* engine.db.graph_val_set(graph, key, branch, rev, v)
QeGraphValSet(k, v) == Enqueue("graph_val_set", "graph_val", k, v)
\* engine.db.graph_val_del(graph, key, branch, rev)
QeGraphValDel(k) == Enqueue("graph_val_del", "graph_val", k, None)
\* engine.db.node_val_set(graph, node, key, branch, rev, v)
QeNodeValSet(k, v) == Enqueue("node_val_set", "node_val", k, v)
\* engine.db.node_val_del(graph, node, key, branch, rev)
QeNodeValDel(k) == Enqueue("node_val_del", "node_val", k, None)
\* engine.db.edge_val_set(graph, nodeA, nodeB, idx, key, branch, rev, v)
QeEdgeValSet(k, v) == Enqueue("edge_val_set", "edge_val", k, v)
\* engine.db.edge_val_del(graph, nodeA, nodeB, idx, key, branch, rev)
QeEdgeValDel(k) == Enqueue("edge_val_del", "edge_val", k, None)
\* engine.db.exist_node(graph, node, branch, rev, x)
QeExistNode(k, x) == Enqueue("exist_node", "nodes", k, x)
\* engine.db.exist_edge(graph, nodeA, nodeB, idx, branch, rev, x)
QeExistEdge(k, x) == Enqueue("exist_edge", "edges", k, x)

\* A read method of table t at the cursor: the flush f of the table's
\* buffer, then the query s when the flush went through
StoreRead(name, t, f, s) ==
    /\ SetStore([Bufs EXCEPT ![t] = f.buf], [Tbls EXCEPT ![t] = f.tbl])
    /\ qe_branches' = s.memo
    /\ StoreDone(name, t, s.v, s.exc,
                 Stmts(t, Bufs[t], f.n)
                 \o IF f.exc = "none" THEN << <<name, <<>>>> >> ELSE <<>>)
    /\ UNCHANGED <<table_graphs, connection>>

QeGraphValGet ==
    \E f \in {flush_table(alchemist, "graph_val", graphvals2set, table_graph_val)} :
    \E s \in {IF f.exc # "none" THEN FlushRaised(f, None)
              ELSE graph_val_get(f.tbl, qe_branches, table_branches,
                                 StoreKey, branch, rev)} :
        StoreRead("graph_val_get", "graph_val", f, s)

QeNodeValGet ==
    \E f \in {flush_table(alchemist, "node_val", nodevals2set, table_node_val)} :
    \E s \in {IF f.exc # "none" THEN FlushRaised(f, None)
              ELSE node_val_get(f.tbl, qe_branches, table_branches,
                                StoreKey, branch, rev)} :
        StoreRead("node_val_get", "node_val", f, s)

QeEdgeValGet ==
    \E f \in {flush_table(alchemist, "edge_val", edgevals2set, table_edge_val)} :
    \E s \in {IF f.exc # "none" THEN FlushRaised(f, None)
              ELSE edge_val_get(f.tbl, qe_branches, table_branches,
                                StoreKey, branch, rev)} :
        StoreRead("edge_val_get", "edge_val", f, s)

QeNodeExists ==
    \E f \in {flush_table(alchemist, "nodes", nodes2set, table_nodes)} :
    \E s \in {IF f.exc # "none" THEN FlushRaised(f, None)
              ELSE node_exists(f.tbl, qe_branches, table_branches,
                               StoreKey, branch, rev)} :
        StoreRead("node_exists", "nodes", f, s)

QeEdgeExists ==
    \E f \in {flush_table(alchemist, "edges", edges2set, table_edges)} :
    \E s \in {IF f.exc # "none" THEN FlushRaised(f, None)
              ELSE edge_exists(f.tbl, qe_branches, table_branches,
                               StoreKey, branch, rev)} :
        StoreRead("edge_exists", "edges", f, s)

\* engine.db.flush()
QeFlush ==
    \E f \in {flush(alchemist, Bufs, Tbls)} :
        /\ SetStore(f.buf, f.tbl)
        /\ StoreDone("flush", "", None, f.exc, f.issued)
        /\ UNCHANGED <<qe_branches, table_graphs, connection>>

\* engine.db.commit()
QeCommit ==
    \E c \in {commit(alchemist, Bufs, Tbls)} :
        /\ SetStore(c.buf, c.tbl)
        /\ StoreDone("commit", "", None, c.exc, c.issued)
        /\ UNCHANGED <<qe_branches, table_graphs, connection>>

\* engine.db.close()
QeClose ==
    \E c \in {close(alchemist, Bufs, Tbls)} :
        /\ SetStore(c.buf, c.tbl)
        /\ StoreDone("close", "", None, c.exc, c.issued)
        /\ connection' = c.connection
        /\ UNCHANGED <<qe_branches, table_graphs>>

\* engine.db.new_graph(graph, 'Graph')
QeNewGraph ==
    \E s \in {sql_ins(table_graphs, <<json_dump("g"), "Graph">>)} :
        /\ table_graphs' = s.tbl
        /\ SetStore(Bufs, Tbls)
        /\ StoreDone("new_graph", "", None, s.exc,
                     IF s.exc = "none" THEN << <<"new_graph", <<>>>> >> ELSE <<>>)
        /\ UNCHANGED <<qe_branches, connection>>

\* engine.db.del_graph(graph)
QeDelGraph ==
    \E d \in {del_graph(alchemist, Tbls)} :
        /\ SetStore(Bufs, [Tbls EXCEPT !["edge_val"] = d.edge_val])
        /\ StoreDone("del_graph", "", None, d.exc, d.issued)
        /\ UNCHANGED <<qe_branches, table_graphs, connection>>

StoreStep ==
    /\ \/ \E k \in KeysOf("graph_val"), v \in {"a"} : QeGraphValSet(k, v)
       \/ \E k \in KeysOf("graph_val") : QeGraphValDel(k)
       \/ \E k \in KeysOf("node_val"), v \in {"a"} : QeNodeValSet(k, v)
       \/ \E k \in KeysOf("node_val") : QeNodeValDel(k)
       \/ \E k \in KeysOf("edge_val"), v \in {"a"} : QeEdgeValSet(k, v)
       \/ \E k \in KeysOf("edge_val") : QeEdgeValDel(k)
       \/ \E k \in KeysOf("nodes"), x \in {"True", "False"} : QeExistNode(k, x)
       \/ \E k \in KeysOf("edges"), x \in {"True", "False"} : QeExistEdge(k, x)
       \/ QeGraphValGet
       \/ QeNodeValGet
       \/ QeEdgeValGet
       \/ QeNodeExists
       \/ QeEdgeExists
       \/ QeFlush
       \/ QeCommit
       \/ QeClose
       \/ QeNewGraph
       \/ QeDelGraph
    /\ UNCHANGED storeRestVars

\* The QueryEngine's writes, reads, flush, commit and close on either backend
StoreSpec == InitAny /\ [][StoreStep]_vars

\* ------------------------------ query.py: initdb and the global table
\* Operations on a QueryEngine over a store that starts empty
MaxInitOps == 3

GlobalKeys == {"branch", "rev"}
GlobalValues == {"master", "b1", "0", "1"}

\* A QueryEngine just constructed over an empty store: no table yet
InitEmptyStore ==
    /\ branch = "master"
    /\ rev = 0
    /\ table_branches = EmptyMap
    /\ op = [name |-> "init", arg |-> ""]
    /\ ret = None
    /\ exc = "none"
    /\ ops = 0
    /\ InitFacade /\ InitCache /\ InitQuery /\ InitHistory /\ InitWindow
    /\ InitEdgesCache
    /\ alchemist \in BOOLEAN
    /\ connection = "open"
    /\ schema = FALSE
    /\ InitGraph("Graph")
    /\ globl = EmptyMap
    /\ graphvals2set = <<>>
    /\ nodes2set = <<>>
    /\ edges2set = <<>>
    /\ nodevals2set = <<>>
    /\ edgevals2set = <<>>
    /\ table_graph_val = EmptyMap
    /\ table_graphs = EmptyMap
    /\ table_nodes = EmptyMap
    /\ table_edges = EmptyMap
    /\ table_node_val = EmptyMap
    /\ table_edge_val = EmptyMap

\* The statement global_upd with the arguments global_set passes, (value, key)
\* in this order: the sqlite3 statement binds them in this order, and
\* Alchemist.global_upd(key, value) takes them the other way round
global_upd(alch, g, value, key) ==
    IF alch
    THEN IF value \in DOMAIN g THEN [g EXCEPT ![value] = key] ELSE g
    ELSE IF key \in DOMAIN g THEN [g EXCEPT ![key] = value] ELSE g

\* QueryEngine.global_set(key, value): the table after it
global_set(alch, g, key, value) ==
    IF sql_ins(g, <<json_dump(key), json_dump(value)>>).exc = "none"
    THEN sql_ins(g, <<json_dump(key), json_dump(value)>>).tbl
    ELSE global_upd(alch, g, json_dump(value), json_dump(key))

\* QueryEngine.global_del(key): the table after it
global_del(g, key) == [x \in (DOMAIN g) \ {json_dump(key)} |-> g[x]]

\* QueryEngine.global_get(key): [exc, v]
global_get(g, key) ==
    IF json_dump(key) \in DOMAIN g
    THEN [exc |-> "none", v |-> json_load(g[json_dump(key)])]
    ELSE [exc |-> "KeyError", v |-> None]

\* k in GlobalKeyValueStore: __getitem__ raising KeyError or not
global_contains(g, key) == json_dump(key) \in DOMAIN g

\* The two assignments of initdb to the globals
initdb_globals(alch, g) ==
    CHOOSE out \in
        {IF global_contains(g1, "rev") THEN g1 ELSE global_set(alch, g1, "rev", "0")
         : g1 \in {IF global_contains(g, "branch") THEN g
                   ELSE global_set(alch, g, "branch", "master")}} : TRUE

\* QueryEngine.initdb: [schema, globl, branches].  With an Alchemist it
\* creates the missing tables and sets the globals; with sqlite3 it also
\* inserts master when it creates the table branches.
initdb(alch, sch, g, tb) ==
    IF alch
    THEN [schema |-> TRUE, globl |-> initdb_globals(alch, g), branches |-> tb]
    ELSE [schema |-> TRUE, globl |-> initdb_globals(alch, g),
          branches |-> IF sch THEN tb ELSE Put(tb, "master", <<"master", 0>>)]

initVars == <<branch, rev, facadeVars, cacheVars, qe_branches, written,
              windowVars, alchemist, connection, gvVars, nodes2set, edges2set,
              nodevals2set, edgevals2set, table_graphs, table_nodes,
              table_edges, table_node_val, table_edge_val, issued, kind,
              edges_cache, ecache>>

\* engine.db.initdb()
InitDb ==
    \E s \in {initdb(alchemist, schema, globl, table_branches)} :
        /\ ops < MaxInitOps
        /\ schema' = s.schema
        /\ globl' = s.globl
        /\ table_branches' = s.branches
        /\ Done("initdb", "", None, "none")

\* engine.db.globl[k] = v; without the table the statement raises
GlobalSet(k, v) ==
    /\ ops < MaxInitOps
    /\ globl' = IF schema THEN global_set(alchemist, globl, k, v) ELSE globl
    /\ UNCHANGED <<schema, table_branches>>
    /\ Done("global_set", <<k, v>>, None,
            IF schema THEN "none" ELSE "OperationalError")

\* del engine.db.globl[k]
GlobalDel(k) ==
    /\ ops < MaxInitOps
    /\ globl' = IF schema THEN global_del(globl, k) ELSE globl
    /\ UNCHANGED <<schema, table_branches>>
    /\ Done("global_del", k, None,
            IF schema THEN "none" ELSE "OperationalError")

\* engine.db.globl[k]: no _global_cache is ever made, so global_get answers
GlobalGet(k) ==
    /\ ops < MaxInitOps
    /\ UNCHANGED <<globl, schema, table_branches>>
    /\ Done("global_get", k,
            IF schema THEN global_get(globl, k).v ELSE None,
            IF schema THEN global_get(globl, k).exc ELSE "OperationalError")

InitStep ==
    /\ \/ InitDb
       \/ \E k \in GlobalKeys, v \in GlobalValues : GlobalSet(k, v)
       \/ \E k \in GlobalKeys : GlobalDel(k)
       \/ \E k \in GlobalKeys : GlobalGet(k)
    /\ UNCHANGED initVars

\* initdb and the globals over a store that starts empty, on either backend
InitSpec == InitEmptyStore /\ [][InitStep]_vars

\* ------------------------------ graph.py: the adjacency views (caching)
\* Operations on the views of one graph in one run
MaxEdgeOps == 3
Kinds == {"Graph", "DiGraph", "MultiGraph", "MultiDiGraph"}
Multi == {"MultiGraph", "MultiDiGraph"}
Pairs == {p \in EdgeNodes \X EdgeNodes : p[1] # p[2]}

\* Successors._order_nodes of GraphSuccessorsMapping and
\* MultiGraphSuccessorsMapping: "a" < "b"
order_nodes(nodeA, nodeB) ==
    IF nodeB = "a" /\ nodeA = "b" THEN <<nodeB, nodeA>> ELSE <<nodeA, nodeB>>

\* The loop over the active branches in the views' lookups, over the cache c
\* of one edge index: [c, exc, v, hit], hit telling whether it returned
RECURSIVE edge_walk(_, _, _)
edge_walk(c, walk, i) ==
    IF i > Len(walk)
    THEN [c |-> c, exc |-> "none", v |-> "False", hit |-> FALSE]
    ELSE LET b == walk[i][1]
             r == walk[i][2]
         IN  IF b \notin DOMAIN c
             THEN edge_walk(c, walk, i + 1)
             ELSE LET g  == WindowDict_getitem(c[b], r)
                      c1 == [c EXCEPT ![b] = g.h]
                  IN  IF g.exc = "KeyError"
                      THEN edge_walk(c1, walk, i + 1)
                      ELSE LET a == cache_assign(c1, walk[1][1], walk[1][2], g.v)
                           IN  IF a.exc # "none"
                               THEN [c |-> a.c, exc |-> a.exc, v |-> None,
                                     hit |-> TRUE]
                               ELSE [c |-> a.c, exc |-> "none", v |-> g.v,
                                     hit |-> TRUE]

\* AbstractSuccessors.__contains__ (caching) over cs, the caches of the
\* indices between nodeA and nodeB, from index i on: [cs, exc, v].  The
\* first index with a value along the walk decides.
RECURSIVE succ_contains_from(_, _, _)
succ_contains_from(cs, walk, i) ==
    IF i > MaxIdx
    THEN [cs |-> cs, exc |-> "none", v |-> "False"]
    ELSE CHOOSE out \in
        {IF w.hit
         THEN [cs |-> [cs EXCEPT ![i] = w.c], exc |-> w.exc, v |-> w.v]
         ELSE succ_contains_from([cs EXCEPT ![i] = w.c], walk, i + 1)
         : w \in {edge_walk(cs[i], walk, 1)}} : TRUE

AbstractSuccessors_contains(cs, walk) == succ_contains_from(cs, walk, 0)

\* AbstractSuccessors.__setitem__(nodeB, {}) (caching): [cs, exc].  The
\* cache of index 0 is assigned True, then self[nodeB] looks the edge up.
AbstractSuccessors_setitem(cs, gb, gr, walk) ==
    CHOOSE out \in
        {IF a.exc # "none"
         THEN [cs |-> [cs EXCEPT ![0] = a.c], exc |-> a.exc]
         ELSE CHOOSE o2 \in
             {IF m.exc # "none" THEN [cs |-> m.cs, exc |-> m.exc]
              ELSE IF m.v # "True" THEN [cs |-> m.cs, exc |-> "KeyError"]
              ELSE [cs |-> m.cs, exc |-> "none"]
              : m \in {AbstractSuccessors_contains([cs EXCEPT ![0] = a.c], walk)}}
             : TRUE
         : a \in {cache_assign(cs[0], gb, gr, "True")}} : TRUE

\* AbstractSuccessors.__delitem__ (caching): [cs, exc]
AbstractSuccessors_delitem(cs, gb, gr) ==
    [cs |-> [cs EXCEPT ![0] = cache_assign(cs[0], gb, gr, "False").c],
     exc |-> cache_assign(cs[0], gb, gr, "False").exc]

\* DiGraphPredecessorsMapping.__contains__(nodeB) (caching), of a graph of
\* two nodes: the loop of AbstractSuccessors.__contains__ over the one other
\* node
DiGraphPredecessorsMapping_contains(cs, walk) ==
    AbstractSuccessors_contains(cs, walk)

\* Predecessors.__contains__ (caching): [cs, exc, v].  Its loop tests
\* "branch not in cache" on the cache keyed by index, which holds for every
\* branch, and so always continues.
Predecessors_contains(cs, walk) == [cs |-> cs, exc |-> "none", v |-> "False"]

\* Predecessors.__iter__ (caching) for the one other node: [cs, exc, v], v the
\* nodes yielded
Predecessors_iter(cs, walk, nodeA) ==
    CHOOSE out \in
        {[cs |-> m.cs, exc |-> m.exc,
          v |-> IF m.exc = "none" /\ m.v = "True" THEN <<nodeA>> ELSE <<>>]
         : m \in {AbstractSuccessors_contains(cs, walk)}} : TRUE

\* MultiEdges.__contains__ (caching) over the cache c of the index: [exc, v]
RECURSIVE MultiEdges_contains_walk(_, _, _)
MultiEdges_contains_walk(c, walk, i) ==
    IF i > Len(walk)
    THEN [c |-> c, exc |-> "none", v |-> "False"]
    ELSE IF walk[i][1] \notin DOMAIN c
    THEN MultiEdges_contains_walk(c, walk, i + 1)
    ELSE CHOOSE out \in
        {IF g.exc = "KeyError"
         THEN MultiEdges_contains_walk([c EXCEPT ![walk[i][1]] = g.h], walk, i + 1)
         ELSE [c |-> [c EXCEPT ![walk[i][1]] = g.h], exc |-> "none", v |-> g.v]
         : g \in {WindowDict_getitem(c[walk[i][1]], walk[i][2])}} : TRUE

MultiEdges_contains(c, walk) == MultiEdges_contains_walk(c, walk, 1)

\* MultiEdges.__setitem__(idx, {}) (caching): [c, exc].  self[idx] raises
\* KeyError for an index not there, and the method catches IndexError.
MultiEdges_setitem(c, gb, gr, walk) ==
    CHOOSE out \in
        {IF m.v # "True"
         THEN [c |-> m.c, exc |-> "KeyError"]
         ELSE cache_assign(m.c, gb, gr, "True")
         : m \in {MultiEdges_contains(c, walk)}} : TRUE

\* MultiEdges.__delitem__: e.exists of an Edge, which has no such attribute
MultiEdges_delitem(c, gb, gr) == [c |-> c, exc |-> "AttributeError"]

\* _edges_cache[graph][nodeA][nodeB]: index -> branch -> WindowDict
CacheOf(ec, nodeA, nodeB) == [i \in 0..MaxIdx |-> ec[<<nodeA, nodeB, i>>]]
WithCache(ec, nodeA, nodeB, cs) ==
    [e \in DOMAIN ec |->
        IF e[1] = nodeA /\ e[2] = nodeB THEN cs[e[3]] ELSE ec[e]]

Walk == active_branches_of(table_branches, branch, rev)

edgeRestVars == <<facadeVars, cacheVars, qe_branches, written, windowVars,
                  gvVars, alchemist, globl, nodes2set, nodevals2set,
                  edgevals2set, table_graphs, table_nodes, table_edges,
                  table_node_val, table_edge_val, issued, connection, schema,
                  kind, ecache>>

EdgeDone(name, arg, r, e) ==
    /\ ops < MaxEdgeOps
    /\ Done(name, arg, r, e)

\* g.adj[x][y] = {} of a Graph or DiGraph
SuccSet(x, y) ==
    /\ kind \notin Multi
    /\ \E s \in {AbstractSuccessors_setitem(CacheOf(edges_cache, x, y),
                                            branch, rev, Walk)} :
        /\ edges_cache' = WithCache(edges_cache, x, y, s.cs)
        /\ EdgeDone("succ_set", <<x, y>>, None, s.exc)
    /\ edges2set' = graph_val_set(edges2set, <<x, y, 0>>, branch, rev, "True")

\* del g.adj[x][y] of a Graph or DiGraph
SuccDel(x, y) ==
    /\ kind \notin Multi
    /\ \E s \in {AbstractSuccessors_delitem(CacheOf(edges_cache, x, y),
                                            branch, rev)} :
        /\ edges_cache' = WithCache(edges_cache, x, y, s.cs)
        /\ EdgeDone("succ_del", <<x, y>>, None, s.exc)
    /\ edges2set' = graph_val_set(edges2set, <<x, y, 0>>, branch, rev, "False")

\* y in g.adj[x]
SuccContains(x, y) ==
    /\ \E s \in {AbstractSuccessors_contains(CacheOf(edges_cache, x, y), Walk)} :
        /\ edges_cache' = WithCache(edges_cache, x, y, s.cs)
        /\ EdgeDone("succ_contains", <<x, y>>, s.v, s.exc)
    /\ UNCHANGED edges2set

\* g.pred[y][x] = {} of a DiGraph: g.pred[y] raises KeyError unless an edge
\* into y is found; Predecessors.__setitem__ then declares the edge and
\* assigns _edges_cache[x][y][0][branch][rev], an entry outside the cache of
\* this graph
PredSet(y, x) ==
    /\ kind = "DiGraph"
    /\ \E m \in {DiGraphPredecessorsMapping_contains(
                     CacheOf(edges_cache, x, y), Walk)} :
        /\ edges_cache' = WithCache(edges_cache, x, y, m.cs)
        /\ edges2set' = IF m.exc = "none" /\ m.v = "True"
                        THEN graph_val_set(edges2set, <<x, y, 0>>, branch, rev, "True")
                        ELSE edges2set
        /\ EdgeDone("pred_set", <<x, y>>, None,
                    IF m.exc # "none" THEN m.exc
                    ELSE IF m.v = "True" THEN "none" ELSE "KeyError")

\* del g.pred[y][x] of a DiGraph
PredDel(y, x) ==
    /\ kind = "DiGraph"
    /\ \E m \in {DiGraphPredecessorsMapping_contains(
                     CacheOf(edges_cache, x, y), Walk)} :
        /\ edges_cache' = WithCache(edges_cache, x, y, m.cs)
        /\ edges2set' = IF m.exc = "none" /\ m.v = "True"
                        THEN graph_val_set(edges2set, <<x, y, 0>>, branch, rev, "False")
                        ELSE edges2set
        /\ EdgeDone("pred_del", <<x, y>>, None,
                    IF m.exc # "none" THEN m.exc
                    ELSE IF m.v = "True" THEN "none" ELSE "KeyError")

\* x in g.pred[y] of a DiGraph
PredContains(y, x) ==
    /\ kind = "DiGraph"
    /\ \E m \in {DiGraphPredecessorsMapping_contains(
                     CacheOf(edges_cache, x, y), Walk)} :
        /\ edges_cache' = WithCache(edges_cache, x, y, m.cs)
        /\ EdgeDone("pred_contains", <<x, y>>,
                    IF m.exc = "none" /\ m.v = "True"
                    THEN Predecessors_contains(m.cs, Walk).v ELSE None,
                    IF m.exc # "none" THEN m.exc
                    ELSE IF m.v = "True" THEN "none" ELSE "KeyError")
    /\ UNCHANGED edges2set

\* list(g.pred[y]) of a DiGraph
PredIter(y, x) ==
    /\ kind = "DiGraph"
    /\ \E m \in {DiGraphPredecessorsMapping_contains(
                     CacheOf(edges_cache, x, y), Walk)} :
       \E s \in {IF m.exc = "none" /\ m.v = "True"
                 THEN Predecessors_iter(m.cs, Walk, x)
                 ELSE [cs |-> m.cs, v |-> <<>>,
                       exc |-> IF m.exc # "none" THEN m.exc ELSE "KeyError"]} :
        /\ edges_cache' = WithCache(edges_cache, x, y, s.cs)
        /\ EdgeDone("pred_iter", <<x, y>>, s.v, s.exc)
    /\ UNCHANGED edges2set

\* g.adj[x][y][i] = {} of a MultiGraph or MultiDiGraph
MultiSet(x, y, i) ==
    /\ kind \in Multi
    /\ \E e \in {<<order_nodes(x, y)[1], order_nodes(x, y)[2], i>>} :
       \E s \in {MultiEdges_setitem(edges_cache[e], branch, rev, Walk)} :
        /\ edges_cache' = [edges_cache EXCEPT ![e] = s.c]
        /\ EdgeDone("multi_set", <<x, y, i>>, None, s.exc)
    /\ UNCHANGED edges2set

\* del g.adj[x][y][i] of a MultiGraph or MultiDiGraph
MultiDel(x, y, i) ==
    /\ kind \in Multi
    /\ \E e \in {<<order_nodes(x, y)[1], order_nodes(x, y)[2], i>>} :
       \E s \in {MultiEdges_delitem(edges_cache[e], branch, rev)} :
        /\ edges_cache' = [edges_cache EXCEPT ![e] = s.c]
        /\ EdgeDone("multi_del", <<x, y, i>>, None, s.exc)
    /\ UNCHANGED edges2set

\* i in g.adj[x][y] of a MultiGraph or MultiDiGraph
MultiContains(x, y, i) ==
    /\ kind \in Multi
    /\ \E e \in {<<order_nodes(x, y)[1], order_nodes(x, y)[2], i>>} :
       \E s \in {MultiEdges_contains(edges_cache[e], Walk)} :
        /\ edges_cache' = [edges_cache EXCEPT ![e] = s.c]
        /\ EdgeDone("multi_contains", <<x, y, i>>, s.v, s.exc)
    /\ UNCHANGED edges2set

EdgeStep ==
    /\ \/ \E p \in Pairs : SuccSet(p[1], p[2])
       \/ \E p \in Pairs : SuccDel(p[1], p[2])
       \/ \E p \in Pairs : SuccContains(p[1], p[2])
       \/ \E p \in Pairs : PredSet(p[2], p[1])
       \/ \E p \in Pairs : PredDel(p[2], p[1])
       \/ \E p \in Pairs : PredContains(p[2], p[1])
       \/ \E p \in Pairs : PredIter(p[2], p[1])
       \/ \E p \in Pairs, i \in 0..MaxIdx : MultiSet(p[1], p[2], i)
       \/ \E p \in Pairs, i \in 0..MaxIdx : MultiDel(p[1], p[2], i)
       \/ \E p \in Pairs, i \in 0..MaxIdx : MultiContains(p[1], p[2], i)
    /\ UNCHANGED <<cursorVars, edgeRestVars>>

EdgeCursorStep ==
    /\ ops < MaxEdgeOps
    /\ CursorStep

\* A graph of each kind with its two nodes, nothing else written
InitEdge == InitRest /\ InitBackend(FALSE) /\ \E kd \in Kinds : InitGraph(kd)

\* The cursor and the adjacency views of one graph of any kind
EdgeSpec == InitEdge /\ [][EdgeCursorStep \/ EdgeStep]_vars

\* --------------------------- graph.py: nodes and edges of one DiGraph
\* Operations on the nodes and edges of one graph in one run
MaxEndpointOps == 4

\* n in g.node, on the node caches nc: [nc, exc, v]
node_in(nc, n, walk) ==
    CHOOSE out \in
        {[nc |-> [nc EXCEPT ![n] = m.c], exc |-> m.exc, v |-> m.v]
         : m \in {GraphNodeMapping_contains(nc[n], walk)}} : TRUE

\* g.adj[nodeA][nodeB] = {} from GraphSuccessorsMapping.__getitem__ on: the
\* mapping gives the Successors of a node of the graph only, and
\* AbstractSuccessors.__setitem__ does not look at nodeB: [nc, cs, exc, set]
\* with set whether exist_edge was called
adj_setitem(nc, cs, nodeA, gb, gr, walk) ==
    CHOOSE out \in
        {IF m.exc # "none"
         THEN [nc |-> m.nc, cs |-> cs, exc |-> m.exc, set |-> FALSE]
         ELSE IF m.v # "True"
         THEN [nc |-> m.nc, cs |-> cs, exc |-> "KeyError", set |-> FALSE]
         ELSE CHOOSE o2 \in
             {[nc |-> m.nc, cs |-> s.cs, exc |-> s.exc, set |-> TRUE]
              : s \in {AbstractSuccessors_setitem(cs, gb, gr, walk)}} : TRUE
         : m \in {node_in(nc, nodeA, walk)}} : TRUE

\* DiGraph.add_edge lines 1127-1130: u is a node, or self.adj[u] would have
\* raised; v is made a node when it is not one: [nc, exc, made] with made
\* whether exist_node was called for v
add_edge_nodes(nc, u, v, gb, gr, walk) ==
    CHOOSE out \in
        {IF m1.exc # "none"
         THEN [nc |-> m1.nc, exc |-> m1.exc, made |-> FALSE]
         ELSE CHOOSE o2 \in
             {IF m2.exc # "none"
              THEN [nc |-> m2.nc, exc |-> m2.exc, made |-> FALSE]
              ELSE IF m2.v = "True"
              THEN [nc |-> m2.nc, exc |-> "none", made |-> FALSE]
              ELSE CHOOSE o3 \in
                  {[nc |-> [m2.nc EXCEPT ![v] = a.c], exc |-> a.exc,
                    made |-> a.exc = "none"]
                   : a \in {GraphNodeMapping_setitem(m2.nc[v], gb, gr)}} : TRUE
              : m2 \in {node_in(m1.nc, v, walk)}} : TRUE
         : m1 \in {node_in(nc, u, walk)}} : TRUE

\* DiGraph.add_edge(u, v): [nc, cs, exc, set, made]
DiGraph_add_edge(nc, cs, u, v, gb, gr, walk) ==
    CHOOSE out \in
        {IF m.exc # "none"
         THEN [nc |-> m.nc, cs |-> cs, exc |-> m.exc, set |-> FALSE,
               made |-> FALSE]
         ELSE IF m.v # "True"
         THEN [nc |-> m.nc, cs |-> cs, exc |-> "KeyError", set |-> FALSE,
               made |-> FALSE]
         ELSE CHOOSE o2 \in
             {IF g.exc # "none"
              THEN [nc |-> m.nc, cs |-> g.cs, exc |-> g.exc, set |-> FALSE,
                    made |-> FALSE]
              ELSE CHOOSE o3 \in
                  {IF n.exc # "none"
                   THEN [nc |-> n.nc, cs |-> g.cs, exc |-> n.exc,
                         set |-> FALSE, made |-> n.made]
                   ELSE CHOOSE o4 \in
                       {[nc |-> s.nc, cs |-> s.cs, exc |-> s.exc,
                         set |-> s.set, made |-> n.made]
                        : s \in {adj_setitem(n.nc, g.cs, u, gb, gr, walk)}}
                       : TRUE
                   : n \in {add_edge_nodes(m.nc, u, v, gb, gr, walk)}} : TRUE
              : g \in {AbstractSuccessors_contains(cs, walk)}} : TRUE
         : m \in {node_in(nc, u, walk)}} : TRUE

endpointRestVars == <<graph_val_cache, cacheVars, qe_branches, written,
                      windowVars, gvVars, alchemist, globl, nodevals2set,
                      edgevals2set, table_graphs, table_nodes, table_edges,
                      table_node_val, table_edge_val, issued, connection,
                      schema, kind, ecache>>

EndpointDone(name, arg, r, e) ==
    /\ ops < MaxEndpointOps
    /\ Done(name, arg, r, e)

\* g.node[n] = {}
NodeAdd(n) ==
    /\ \E s \in {GraphNodeMapping_setitem(nodes_cache[n], branch, rev)} :
           /\ nodes_cache' = [nodes_cache EXCEPT ![n] = s.c]
           /\ EndpointDone("node_add", n, None, s.exc)
    /\ nodes2set' = Append(nodes2set, <<n, branch, rev, "True">>)
    /\ UNCHANGED <<edges_cache, edges2set>>

\* del g.node[n]
NodeDel(n) ==
    /\ \E s \in {GraphNodeMapping_delitem(nodes_cache[n], Walk)} :
           /\ nodes_cache' = [nodes_cache EXCEPT ![n] = s.c]
           /\ nodes2set' = IF s.exc = "none"
                           THEN Append(nodes2set, <<n, branch, rev, "False">>)
                           ELSE nodes2set
           /\ EndpointDone("node_del", n, None, s.exc)
    /\ UNCHANGED <<edges_cache, edges2set>>

\* g.adj[x][y] = {}
AdjSetItem(x, y) ==
    /\ \E s \in {adj_setitem(nodes_cache, CacheOf(edges_cache, x, y), x,
                              branch, rev, Walk)} :
           /\ nodes_cache' = s.nc
           /\ edges_cache' = WithCache(edges_cache, x, y, s.cs)
           /\ edges2set' = IF s.set
                           THEN graph_val_set(edges2set, <<x, y, 0>>, branch,
                                              rev, "True")
                           ELSE edges2set
           /\ EndpointDone("adj_set", <<x, y>>, None, s.exc)
    /\ UNCHANGED nodes2set

\* g.add_edge(u, v)
AddEdge(u, v) ==
    \E s \in {DiGraph_add_edge(nodes_cache, CacheOf(edges_cache, u, v), u, v,
                                branch, rev, Walk)} :
        /\ nodes_cache' = s.nc
        /\ edges_cache' = WithCache(edges_cache, u, v, s.cs)
        /\ nodes2set' = IF s.made
                        THEN Append(nodes2set, <<v, branch, rev, "True">>)
                        ELSE nodes2set
        /\ edges2set' = IF s.set
                        THEN graph_val_set(edges2set, <<u, v, 0>>, branch, rev,
                                           "True")
                        ELSE edges2set
        /\ EndpointDone("add_edge", <<u, v>>, None, s.exc)

EndpointStep ==
    /\ \/ \E n \in EdgeNodes : NodeAdd(n)
       \/ \E n \in EdgeNodes : NodeDel(n)
       \/ \E p \in Pairs : AdjSetItem(p[1], p[2])
       \/ \E p \in Pairs : AddEdge(p[1], p[2])
    /\ UNCHANGED <<cursorVars, endpointRestVars>>

EndpointCursorStep ==
    /\ ops < MaxEndpointOps
    /\ CursorStep

\* A DiGraph just made: no node, no edge
InitEndpoint ==
    /\ InitEngine /\ InitCache /\ InitQuery /\ InitHistory /\ InitWindow
    /\ InitEdgesCache /\ InitBackend(FALSE) /\ InitGraph("DiGraph")
    /\ graph_val_cache = [k \in Keys |-> EmptyMap]
    /\ nodes_cache = [n \in EdgeNodes |-> EmptyMap]

\* The cursor, the nodes and the edges of one DiGraph
EndpointSpec == InitEndpoint /\ [][EndpointCursorStep \/ EndpointStep]_vars

\* ------------------------------------------------ the EdgesCache in use
MaxEdgesCacheOps == 3

edgesCacheRestVars == <<facadeVars, cacheVars, qe_branches, written, windowVars,
                        gvVars, alchemist, globl, nodes2set, edges2set,
                        nodevals2set, edgevals2set, table_graphs, table_nodes,
                        table_edges, table_node_val, table_edge_val, issued,
                        connection, schema, kind, edges_cache>>

\* cache.store(graph, nodeA, nodeB, idx, b, r, ex) on an EdgesCache
EdgesStore(e, b, r, ex) ==
    /\ ops < MaxEdgesCacheOps
    /\ \E s \in {EdgesCache_store(ecache, walk_now, e, b, r, ex)} :
           /\ ecache' = s.C
           /\ Done("edges_store", <<e, b, r>>, ex, s.exc)

\* cache.retrieve(graph, nodeA, nodeB, idx, b, r) on an EdgesCache
EdgesRetrieve(e, b, r) ==
    /\ ops < MaxEdgesCacheOps
    /\ \E s \in {Cache_retrieve(ecache, walk_now,
                                active_branches_of(table_branches, b, r),
                                e, b, r)} :
           /\ ecache' = s.C
           /\ Done("edges_retrieve", <<e, b, r>>, s.v, s.exc)

EdgesCacheStep ==
    /\ \/ \E e \in CacheEdges, b \in DOMAIN table_branches, r \in Revs,
             ex \in {"True", "False"} : EdgesStore(e, b, r, ex)
       \/ \E e \in CacheEdges, b \in DOMAIN table_branches, r \in Revs :
             EdgesRetrieve(e, b, r)
    /\ UNCHANGED <<cursorVars, edgesCacheRestVars>>

EdgesCacheCursorStep ==
    /\ ops < MaxEdgesCacheOps
    /\ CursorStep

\* The engine's cursor and one EdgesCache
EdgesCacheSpec == Init /\ [][EdgesCacheCursorStep \/ EdgesCacheStep]_vars

\* ------------------------------------------------ reads at any point
\* What the facade's mappings answer at (b, r), whatever the cursor is:
\* the reads of the cursor (b, r), without their write-back
AttrGet(k, b, r) ==
    AbstractEntityMapping_getitem(graph_val_cache[k],
                                  active_branches_of(table_branches, b, r))

AttrHas(k, b, r) ==
    AbstractEntityMapping_contains(graph_val_cache[k],
                                   active_branches_of(table_branches, b, r))

NodeHas(n, b, r) ==
    GraphNodeMapping_contains(nodes_cache[n],
                              active_branches_of(table_branches, b, r))

\* Everything a reader positioned at (b, r) can observe in the caches gvc
\* and nc under the branch table tb
ReadsIn(gvc, nc, tb, b, r) ==
    LET walk == active_branches_of(tb, b, r)
    IN  [get |-> [k \in Keys |->
                     LET g == AbstractEntityMapping_getitem(gvc[k], walk)
                     IN  <<g.exc, g.v>>],
         has |-> [k \in Keys |->
                     LET g == AbstractEntityMapping_contains(gvc[k], walk)
                     IN  <<g.exc, g.v>>],
         node |-> [n \in Nodes |->
                     LET g == GraphNodeMapping_contains(nc[n], walk)
                     IN  <<g.exc, g.v>>]]

\* The proper ancestors of a registered branch, computed from the table by
\* closure rather than by the walk of is_parent_of
RECURSIVE AncestorsWithin(_, _)
AncestorsWithin(b, n) ==
    IF n = 0 \/ b = "master"
    THEN {}
    ELSE {table_branches[b][1]} \cup AncestorsWithin(table_branches[b][1], n - 1)

ProperAncestors(b) == AncestorsWithin(b, Cardinality(BranchNames))

FacadeOps == {"setitem", "delitem", "getitem", "contains",
              "node_setitem", "node_delitem", "node_contains"}

\* -------------------------------------------------------------- claims
\* C1: after m[k] = v through a facade mapping at the cursor, the write
\* succeeds, m[k] read at the same cursor returns v and k in m is True.
C1_WriteRead ==
    op.name = "setitem" =>
        /\ exc = "none"
        /\ AttrGet(op.arg, branch, rev).exc = "none"
        /\ AttrGet(op.arg, branch, rev).v = ret
        /\ AttrHas(op.arg, branch, rev).v = "True"

\* C5: after del m[k] in a child branch whose parent holds a value for k at
\* the fork point, m[k] raises KeyError and k in m is False in the child at
\* revisions from the deletion on; and m[k] succeeds exactly when k in m.
C5_TombstoneShadowsParent ==
    /\ (/\ op.name = "delitem"
        /\ exc = "none"
        /\ branch # "master"
        /\ AttrGet(op.arg, table_branches[branch][1],
                   table_branches[branch][2]).exc = "none")
       => \A r \in rev..MaxRev :
              /\ AttrGet(op.arg, branch, r).exc = "KeyError"
              /\ AttrHas(op.arg, branch, r).v = "False"
    /\ \A k \in Keys :
          (AttrGet(k, branch, rev).exc = "none")
              <=> (AttrHas(k, branch, rev).v = "True")

\* The facade's part of branch isolation: an operation of the facade made
\* while the cursor is on a child branch (a write, a deletion, or a read with
\* its write-back) changes the result of no facade read at any (ancestor,
\* revision).
FacadeIsolation ==
    [][(branch # "master" /\ op'.name \in FacadeOps /\ ops' # ops)
          => \A a \in ProperAncestors(branch), r \in Revs :
                 ReadsIn(graph_val_cache', nodes_cache', table_branches', a, r)
                   = ReadsIn(graph_val_cache, nodes_cache, table_branches, a, r)]_vars

\* What cache.retrieve("k", a, q) answers in the cache state C
CacheReads(C, a, q) ==
    LET g == Cache_retrieve(C, walk_now,
                            active_branches_of(table_branches, a, q), "k", a, q)
    IN  <<g.exc, g.v>>

\* The cache states a store or a retrieve of "k" on branch b at r leads to
AfterChildOp(b, r) ==
    {Cache_retrieve(CacheState, walk_now,
                    active_branches_of(table_branches, b, r), "k", b, r).C}
    \cup {Cache_store(CacheState, walk_now, "k", b, r, v).C
             : v \in Values \cup {None}}

\* C6: a write on a child branch, and any read performed on a child branch,
\* never changes the result of a read at any (ancestor branch, rev).
C6_BranchIsolation ==
    \A b \in DOMAIN table_branches \ {"master"}, r \in Revs :
        \A C \in AfterChildOp(b, r) :
            \A a \in ProperAncestors(b), q \in Revs :
                CacheReads(C, a, q) = CacheReads(CacheState, a, q)

C8_ParentRevGuard ==
    [][(op'.name = "branch" /\ ops' # ops /\ op'.arg \in DOMAIN table_branches)
          => IF rev < table_branches[op'.arg][2]
             THEN exc' = "ValueError" /\ branch' = branch /\ rev' = rev
             ELSE exc' = "none" /\ branch' = op'.arg /\ rev' = rev]_vars

\* A switch to a registered branch was refused below its fork revision
C8_Witness ==
    /\ op.name = "branch"
    /\ exc = "ValueError"
    /\ op.arg \in DOMAIN table_branches
    /\ rev < table_branches[op.arg][2]
    /\ branch # op.arg

\* C9: is_parent_of(a, b) holds exactly when a is a proper ancestor of b;
\* master is an ancestor of every other branch; the relation is transitive
\* and never holds both ways between two distinct branches.
C9_IsParentOf ==
    \A a \in DOMAIN table_branches, b \in DOMAIN table_branches :
        /\ is_parent_of(a, b) <=> a \in ProperAncestors(b)
        /\ (b # "master") => is_parent_of("master", b)
        /\ (a # b) => ~(is_parent_of(a, b) /\ is_parent_of(b, a))
        /\ \A c \in DOMAIN table_branches :
               (is_parent_of(a, b) /\ is_parent_of(b, c)) => is_parent_of(a, c)

\* A chain master - b1 - b2: master is an ancestor of b2 but not its parent
C9_Witness ==
    /\ {"b1", "b2"} \subseteq DOMAIN table_branches
    /\ table_branches["b2"][1] = "b1"
    /\ table_branches["b1"][1] = "master"
    /\ is_parent_of("master", "b2")

\* ------------------------------------------- what the caller stored
\* The keys every store of which returned normally
Clean(k) == \A e \in DOMAIN written : e[1] = k => written[e] # "raised"

\* The revisions of branch b at or before r at which the caller stored k
StoredRevs(k, b, r) == {q \in 0..r : <<k, b, q>> \in DOMAIN written}

Greatest(S) == CHOOSE q \in S : \A p \in S : p <= q

\* The value the stores give k along an ancestry, from position i on:
\* that of the greatest stored revision of the first branch that has one
RECURSIVE StoredAlong(_, _, _)
StoredAlong(k, anc, i) ==
    IF i > Len(anc)
    THEN None
    ELSE IF StoredRevs(k, anc[i][1], anc[i][2]) = {}
    THEN StoredAlong(k, anc, i + 1)
    ELSE written[<<k, anc[i][1], Greatest(StoredRevs(k, anc[i][1], anc[i][2]))>>]

\* cache.retrieve(graph, k, b, r) asked of the present state
RetrieveNow(k, b, r) ==
    Cache_retrieve(CacheState, walk_now,
                   active_branches_of(table_branches, b, r), k, b, r)

\* C2: retrieve(k, b, r) answers with the value of the accepted store of
\* (k, b) at the greatest revision at or before r, whatever retrieves were
\* made in between.
C2_MonotoneRevisions ==
    \A k \in CacheKeys, b \in DOMAIN table_branches, r \in Revs :
        (/\ Clean(k)
         /\ StoredRevs(k, b, r) # {}
         /\ StoredAlong(k, <<<<b, r>>>>, 1) # None)
        => /\ RetrieveNow(k, b, r).exc = "none"
           /\ RetrieveNow(k, b, r).v = StoredAlong(k, <<<<b, r>>>>, 1)

\* C3: a child branch with no entry of its own for k at or before r answers
\* retrieve(k, child, r) with the value of the nearest ancestor that has one
\* at its fork revision, also when the child only has later entries and
\* whatever was read before.
C3_BranchInheritance ==
    \A k \in CacheKeys, b \in DOMAIN table_branches \ {"master"}, r \in Revs :
        LET anc == active_branches_of(table_branches, b, r)
        IN  (/\ Clean(k)
             /\ StoredRevs(k, b, r) = {}
             /\ StoredAlong(k, anc, 2) # None)
            => /\ RetrieveNow(k, b, r).exc = "none"
               /\ RetrieveNow(k, b, r).v = StoredAlong(k, anc, 2)

\* C4: after an accepted store(k, b, r, None), the first write of k
\* included, retrieve(k, b, r) raises KeyError and iter_keys(b, r) does not
\* yield k.
C4_Tombstone ==
    (op.name = "store" /\ exc = "none" /\ ret = None) =>
        \A e \in DOMAIN written :
            (e[1] = op.arg /\ written[e] = None /\ Clean(op.arg)
             /\ ~\E f \in DOMAIN written : f[1] = op.arg /\ f # e)
            => /\ RetrieveNow(e[1], e[2], e[3]).exc = "KeyError"
               /\ e[1] \notin Cache_iter_keys(CacheState, walk_now, e[2], e[3]).v

\* The first value stored for a key is retrieved at the point of the store
CacheWriteRead ==
    (op.name = "store" /\ exc = "none" /\ ret # None) =>
        \A e \in DOMAIN written :
            (e[1] = op.arg /\ Clean(op.arg)
             /\ ~\E f \in DOMAIN written : f[1] = op.arg /\ f # e)
            => /\ RetrieveNow(e[1], e[2], e[3]).exc = "none"
               /\ RetrieveNow(e[1], e[2], e[3]).v = written[e]

\* C10: for every registered branch b and every rev r, active_branches(b, r)
\* yields finitely many pairs, the last of them on master.
C10_AncestryTermination ==
    op.name = "active_branches" =>
        /\ exc = "none"
        /\ Len(ret) >= 1
        /\ Last(ret)[1] = "master"

\* C11: active_branches(branch, rev) yields (branch, rev) first, each
\* following pair is (parent, parent_rev) of the branch of the pair before
\* it, master is yielded exactly once and no branch twice; for master the
\* walk is the single pair (master, r).
C11_AncestryShape ==
    op.name = "active_branches" =>
        /\ exc = "none"
        /\ Len(ret) >= 1
        /\ ret[1][1] = op.arg
        /\ \A i \in 2..Len(ret) : ret[i] = table_branches[ret[i - 1][1]]
        /\ Cardinality({i \in 1..Len(ret) : ret[i][1] = "master"}) = 1
        /\ \A i, j \in 1..Len(ret) : ret[i][1] = ret[j][1] => i = j
        /\ (op.arg = "master" => Len(ret) = 1)

\* The parent relation is a tree rooted at master
BranchTree ==
    /\ "master" \in DOMAIN table_branches
    /\ table_branches["master"] = <<"master", 0>>
    /\ \A b \in DOMAIN table_branches :
          /\ table_branches[b][1] \in DOMAIN table_branches
          /\ b # "master" =>
                /\ "master" \in ProperAncestors(b)
                /\ b \notin ProperAncestors(b)

WEntries(h) == h.past \o h.future
\* The revisions a history holds
WRevs(h) == {WEntries(h)[i][1] : i \in 1..Len(WEntries(h))}
\* The greatest revision of S (non-empty)
MaxOf(S) == CHOOSE q \in S : \A p \in S : p <= q
\* The smallest revision of S (non-empty)
MinOf(S) == CHOOSE q \in S : \A p \in S : q <= p
\* h's entries without those at revision r
WithoutRev(h, r) ==
    LET F[i \in 0..Len(WEntries(h))] ==
            IF i = 0 THEN <<>>
            ELSE IF WEntries(h)[i][1] = r THEN F[i - 1]
            ELSE Append(F[i - 1], WEntries(h)[i])
    IN  F[Len(WEntries(h))]

\* C13: after any sequence of WindowDict operations, _past followed by _future
\* is strictly ascending in revision; a set at a revision leaves exactly one
\* entry at it, holding the value set; len is the number of distinct stored
\* revisions; iteration yields the revisions in ascending order.
C13_OneValuePerRevision ==
    LET all == WEntries(wd)
        it == WindowDict_iter(wd)
    IN  /\ \A i \in 1..(Len(all) - 1) : all[i][1] < all[i + 1][1]
        /\ (op.name = "wd_set" /\ exc = "none") =>
               \E i \in 1..Len(all) :
                   /\ all[i] = <<op.arg, ret>>
                   /\ \A j \in 1..Len(all) : all[j][1] = op.arg => j = i
        /\ WindowDict_len(wd) = Cardinality(DOMAIN stored)
        /\ \A i \in 1..(Len(it) - 1) : it[i] < it[i + 1]

\* C14: a WindowDict lookup at r returns the value most recently set at the
\* greatest stored revision <= r, raises KeyError when there is none or when
\* that value is None; has_exact_rev(r) is truthy exactly when r is stored.
C14_EffectiveValue ==
    /\ op.name = "wd_get" =>
           LET below == {q \in DOMAIN stored : q <= op.arg}
           IN  IF below # {} /\ stored[MaxOf(below)] # None
               THEN exc = "none" /\ ret = stored[MaxOf(below)]
               ELSE exc = "KeyError"
    /\ op.name = "wd_has_exact_rev" =>
           (ret = "True" <=> op.arg \in DOMAIN stored)

\* C15: a WindowDict set completes without error in every reachable state,
\* and afterwards has_exact_rev(rev) holds and the lookup at rev gives the
\* value set, when that is not None.
C15_SetAlwaysSucceeds ==
    op.name = "wd_set" =>
        /\ exc = "none"
        /\ has_exact_rev(wd, op.arg).ret
        /\ ret # None =>
               /\ WindowDict_getitem(wd, op.arg).exc = "none"
               /\ WindowDict_getitem(wd, op.arg).v = ret

\* C16: a FuturistWindowDict set raises ValueError exactly when the history
\* holds a revision greater than rev, and then leaves the entries as they
\* were; otherwise it stores (rev, v): in place of the entry at the greatest
\* stored revision when rev equals it, after all entries when rev is greater.
C16_FuturistSet ==
    [][op'.name = "fwd_set" =>
          LET r == op'.arg
              v == ret'
              old == WEntries(wd)
          IN  IF \E q \in WRevs(wd) : q > r
              THEN exc' = "ValueError" /\ WEntries(wd') = old
              ELSE /\ exc' = "none"
                   /\ WEntries(wd') =
                          IF r \in WRevs(wd)
                          THEN SetLast(old, <<r, v>>)
                          ELSE Append(old, <<r, v>>)]_vars

\* A set into the past was refused after a lookup moved entries to _future,
\* and a set at the greatest revision was accepted in the same history.
C16_Witness ==
    /\ op.name = "fwd_set" /\ exc = "ValueError"
    /\ Len(WEntries(wd)) >= 2
    /\ wd.future # <<>>
    /\ stored = [q \in {0, MaxRev} |-> "b"]

\* C17: del of a revision that is not stored raises KeyError and leaves the
\* history as it was; del of a stored revision removes exactly that entry
\* and keeps the others in their order.
C17_Delete ==
    [][op'.name = "wd_del" =>
          IF op'.arg \in WRevs(wd)
          THEN exc' = "none" /\ WEntries(wd') = WithoutRev(wd, op'.arg)
          ELSE exc' = "KeyError" /\ WEntries(wd') = WEntries(wd)]_vars

\* C18: rev_before(rev) returns the greatest stored revision <= rev, or None
\* without failing when there is none; rev_after(rev) returns the smallest
\* stored revision > rev, or None when there is none.
C18_NeighbourRevisions ==
    /\ op.name = "wd_rev_before" =>
           LET below == {q \in DOMAIN stored : q <= op.arg}
           IN  /\ exc = "none"
               /\ ret = IF below # {} THEN <<MaxOf(below)>> ELSE <<>>
    /\ op.name = "wd_rev_after" =>
           LET above == {q \in DOMAIN stored : q > op.arg}
           IN  /\ exc = "none"
               /\ ret = IF above # {} THEN <<MinOf(above)>> ELSE <<>>

\* rev_after alone, which the code does as claimed
RevAfter ==
    op.name = "wd_rev_after" =>
        LET above == {q \in DOMAIN stored : q > op.arg}
        IN  /\ exc = "none"
            /\ ret = IF above # {} THEN <<MinOf(above)>> ELSE <<>>

\* ------------------------------------------------ claims on the value tables
\* The rows of key k along an ancestry, from position i on: the value of the
\* latest row of the first pair whose branch has one, as <<value>>
RECURSIVE RowAlong(_, _, _)
RowAlong(k, anc, i) ==
    IF i > Len(anc)
    THEN <<>>
    ELSE IF sql_graph_val_get(table_graph_val, json_dump(k), anc[i][1], anc[i][2]) # <<>>
    THEN sql_graph_val_get(table_graph_val, json_dump(k), anc[i][1], anc[i][2])[1]
    ELSE RowAlong(k, anc, i + 1)

\* The keys whose effective value at (b, r) is not the tombstone
Extant(b, r) ==
    {k \in Keys :
        /\ RowAlong(k, active_branches_of(table_branches, b, r), 1) # <<>>
        /\ RowAlong(k, active_branches_of(table_branches, b, r), 1)[1] # NULL}

\* C19: with the write buffer flushed, graph_val_get, node_val_get and
\* edge_val_get at (branch, rev) give what the cached mapping gives for the
\* key there: the same value, or KeyError in both.
C19_CachePersistenceAgreement ==
    op.name \in {"graph_val_get", "node_val_get", "edge_val_get"} =>
        /\ exc = AttrGet(op.arg, branch, rev).exc
        /\ ret = AttrGet(op.arg, branch, rev).v

\* C20: graph_val_keys, node_val_keys and edge_val_keys at (branch, rev) yield
\* exactly the keys whose effective value on the ancestry is not the
\* tombstone, each once.
C20_KeyEnumeration ==
    op.name \in {"graph_val_keys", "node_val_keys", "edge_val_keys"} =>
        /\ exc = "none"
        /\ \A i, j \in 1..Len(ret) : ret[i] = ret[j] => i = j
        /\ {ret[i] : i \in 1..Len(ret)} = Extant(branch, rev)

\* C21: k in mapping with caching disabled gives the boolean it gives with
\* caching enabled, and does not raise.
C21_MembershipWithoutCache ==
    op.name = "contains_db" =>
        /\ exc = "none"
        /\ ret = AttrHas(op.arg, branch, rev).v

\* C29: m[k] = None raises TypeError, enqueues no write and leaves the cache
\* as it was.
C29_NoneAssignment ==
    [][(op'.name = "setitem" /\ ret' = None) =>
          /\ exc' = "TypeError"
          /\ UNCHANGED <<graph_val_cache, graphvals2set>>]_vars

\* m[k] = None raises, enqueues no write and leaves the cache as it was
NoneAssignmentRefused ==
    [][(op'.name = "setitem" /\ ret' = None) =>
          /\ exc' # "none"
          /\ UNCHANGED <<graph_val_cache, graphvals2set>>]_vars

\* ------------------------------------------- buffered writes and reads
ReadNames == {"graph_val_get", "node_val_get", "edge_val_get", "node_exists",
              "edge_exists"}

\* Whether the read o got as far as its query, given the statements it issued
QueryRan(o, stmts) ==
    /\ o.name \in ReadNames
    /\ stmts # <<>>
    /\ Last(stmts) = <<o.name, <<>>>>

\* Whether table tbl of name t holds the buffered row as the flush encodes it
RowStored(tbl, t, row) ==
    LET c == IF t \in ValueTables THEN convert_arg(row) ELSE convert_arg_exist(row)
    IN  c[1] \in DOMAIN tbl /\ tbl[c[1]] = c[2]

StmtsOf(stmts, t) == SelectSeq(stmts, LAMBDA x : x[1] = t)
PlacesOf(stmts, name) == {i \in 1..Len(stmts) : stmts[i][1] = name}

\* C23: a commit that succeeds leaves every buffer empty, has issued each
\* buffered row exactly once, in enqueue order within its table, and commits
\* once, after every insert; a close releases the connection only after the
\* commit.
C23_CommitFlushesAll ==
    [][(op'.name \in {"commit", "close"} /\ exc' = "none") =>
         /\ \A t \in Tables :
               /\ Bufs'[t] = <<>>
               /\ StmtsOf(issued', t) = Stmts(t, Bufs[t], Len(Bufs[t]))
         /\ Cardinality(PlacesOf(issued', "commit")) = 1
         /\ \A i \in 1..Len(issued'), c \in PlacesOf(issued', "commit") :
               issued'[i][1] \in Tables => i < c
         /\ \A i \in PlacesOf(issued', "close") :
               \E c \in PlacesOf(issued', "commit") : c < i
         /\ connection' = "closed" => PlacesOf(issued', "close") # {}]_vars

\* A commit has flushed two rows of one table, in order, and committed
C23_Witness ==
    /\ op.name = "commit"
    /\ exc = "none"
    /\ Len(issued) = 3
    /\ issued[1][1] = "graph_val"
    /\ issued[2][1] = "graph_val"
    /\ issued[3][1] = "commit"
    /\ table_graph_val # EmptyMap

\* Whether row i of buf is the last one buffered for its primary key
LastForKey(buf, i) ==
    \A j \in (i + 1)..Len(buf) :
        <<buf[j][1], buf[j][2], buf[j][3]>> # <<buf[i][1], buf[i][2], buf[i][3]>>

\* C24: a flush never fails, whatever was buffered -- two writes to one
\* primary key included: it empties every buffer and leaves, for each
\* primary key written, the row with the value written last.
C24_UpsertOnFlush ==
    [][op'.name = "flush" =>
         /\ exc' = "none"
         /\ \A t \in Tables :
               /\ Bufs'[t] = <<>>
               /\ \A i \in 1..Len(Bufs[t]) :
                     LastForKey(Bufs[t], i) => RowStored(Tbls'[t], t, Bufs[t][i])]_vars

\* C25: once del_graph was called, and after a flush following it, no row
\* of the graph is left in edge_val, edges, node_val, nodes, graph_val or
\* graphs, rows buffered at the time of the call included.
C25_GraphDeletionComplete ==
    [][(op'.name = "del_graph" \/ (op.name = "del_graph" /\ op'.name = "flush")) =>
         /\ \A t \in Tables : Tbls'[t] = EmptyMap
         /\ table_graphs' = EmptyMap]_vars

\* ------------------------------------------- the store after initdb
\* C30: initdb over an empty store leaves, on either backend, the global
\* branch master and the global rev 0 and the branch master registered with
\* parent master and parent_rev 0; an initdb right after an initdb changes
\* neither the globals nor the branch table.
C30_InitialState ==
    [][op'.name = "initdb" =>
         /\ ~schema =>
               /\ globl' = [k \in {json_dump("branch"), json_dump("rev")} |->
                               IF k = json_dump("branch") THEN json_dump("master")
                               ELSE json_dump("0")]
               /\ table_branches' = [b \in {"master"} |-> <<"master", 0>>]
         /\ op.name = "initdb" =>
               /\ globl' = globl
               /\ table_branches' = table_branches]_vars

\* The same with the registration of master asked of the sqlite3 backend only
InitialStateButBranches ==
    [][op'.name = "initdb" =>
         /\ ~schema =>
               /\ globl' = [k \in {json_dump("branch"), json_dump("rev")} |->
                               IF k = json_dump("branch") THEN json_dump("master")
                               ELSE json_dump("0")]
               /\ table_branches' = IF alchemist THEN EmptyMap
                                     ELSE [b \in {"master"} |-> <<"master", 0>>]
         /\ op.name = "initdb" =>
               /\ globl' = globl
               /\ table_branches' = table_branches]_vars

\* ------------------------------------------- the adjacency views
\* What `y in g.adj[x]` answers at (b, r) over the cache ec and the branch
\* table tb, and what `x in g.pred[y]` and list(g.pred[y]) answer there;
\* g.pred[y] raising KeyError counts as no edge
SuccHas(ec, tb, x, y, b, r) ==
    AbstractSuccessors_contains(CacheOf(ec, x, y), active_branches_of(tb, b, r)).v

PredOpens(ec, tb, x, y, b, r) ==
    LET m == DiGraphPredecessorsMapping_contains(CacheOf(ec, x, y),
                                                 active_branches_of(tb, b, r))
    IN  m.exc = "none" /\ m.v = "True"

PredHas(ec, tb, x, y, b, r) ==
    IF PredOpens(ec, tb, x, y, b, r)
    THEN Predecessors_contains(CacheOf(ec, x, y), active_branches_of(tb, b, r)).v
    ELSE "False"

PredList(ec, tb, x, y, b, r) ==
    IF PredOpens(ec, tb, x, y, b, r)
    THEN Predecessors_iter(CacheOf(ec, x, y), active_branches_of(tb, b, r), x).v
    ELSE <<>>

MultiHas(ec, tb, e, b, r) ==
    MultiEdges_contains(ec[e], active_branches_of(tb, b, r)).v

\* The edge a multigraph keeps for g.adj[x][y][i]
MultiEdgeOf(x, y, i) == <<order_nodes(x, y)[1], order_nodes(x, y)[2], i>>

\* C26: in a multigraph, assigning to an index creates the edge at that
\* index and removing it makes the index absent, in the cache and in what is
\* written to persistence, and neither changes the edge at another index.
C26_MultiEdgeDistinctness ==
    [][op'.name \in {"multi_set", "multi_del"} =>
         LET e == MultiEdgeOf(op'.arg[1], op'.arg[2], op'.arg[3])
             x == IF op'.name = "multi_set" THEN "True" ELSE "False"
         IN  /\ exc' = "none"
             /\ MultiHas(edges_cache', table_branches', e, branch', rev') = x
             /\ \E k \in 1..Len(edges2set') :
                   edges2set'[k] = <<e, branch', rev', x>>
             /\ \A j \in 0..MaxIdx :
                   j # e[3] =>
                     edges_cache'[<<e[1], e[2], j>>] = edges_cache[<<e[1], e[2], j>>]]_vars

\* C27: in an undirected graph `b in adj[a]` and `a in adj[b]` agree at
\* every (branch, rev); in a directed graph adding the edge (a, b) does not
\* make `a in adj[b]` true.
C27_Direction ==
    [][/\ kind' \in {"Graph", "MultiGraph"} =>
             \A b \in DOMAIN table_branches', r \in Revs :
                 SuccHas(edges_cache', table_branches', "a", "b", b, r)
                 = SuccHas(edges_cache', table_branches', "b", "a", b, r)
       /\ (kind' \in {"DiGraph", "MultiDiGraph"}
           /\ op'.name \in {"succ_set", "multi_set"} /\ exc' = "none") =>
             (SuccHas(edges_cache, table_branches, op'.arg[2], op'.arg[1],
                      branch, rev) # "True"
              => SuccHas(edges_cache', table_branches', op'.arg[2], op'.arg[1],
                         branch', rev') # "True")]_vars

\* The directed half of C27 on its own
DirectedAddIsOneWay ==
    [][(kind' \in {"DiGraph", "MultiDiGraph"}
        /\ op'.name \in {"succ_set", "multi_set"} /\ exc' = "none") =>
             (SuccHas(edges_cache, table_branches, op'.arg[2], op'.arg[1],
                      branch, rev) # "True"
              => SuccHas(edges_cache', table_branches', op'.arg[2], op'.arg[1],
                         branch', rev') # "True")]_vars

\* C28: in a DiGraph, at every (branch, rev), `a in pred[b]` holds exactly
\* when `b in succ[a]` holds, and list(pred[b]) is the nodes a with an edge
\* (a, b), each once.
C28_PredecessorsAgree ==
    kind = "DiGraph" =>
        \A p \in Pairs, b \in DOMAIN table_branches, r \in Revs :
            /\ (PredHas(edges_cache, table_branches, p[1], p[2], b, r) = "True")
               <=> (SuccHas(edges_cache, table_branches, p[1], p[2], b, r) = "True")
            /\ PredList(edges_cache, table_branches, p[1], p[2], b, r)
               = IF SuccHas(edges_cache, table_branches, p[1], p[2], b, r) = "True"
                 THEN <<p[1]>> ELSE <<>>

\* The half of C28 on list(pred[b]) on its own
PredecessorsListed ==
    kind = "DiGraph" =>
        \A p \in Pairs, b \in DOMAIN table_branches, r \in Revs :
            PredList(edges_cache, table_branches, p[1], p[2], b, r)
            = IF SuccHas(edges_cache, table_branches, p[1], p[2], b, r) = "True"
              THEN <<p[1]>> ELSE <<>>

\* ------------------------------------------- the extant index of a Cache
\* contains_key, iter_keys and count_keys asked of the present state
ContainsNow(k, b, r) == Cache_contains(CacheState, walk_now, k, b, r).v
IterNow(b, r) == Cache_iter_keys(CacheState, walk_now, b, r).v
CountNow(b, r) == Cache_count_keys(CacheState, walk_now, b, r).v

\* C31: in every reachable cache state contains(k, b, r) is true exactly
\* when iter_keys(b, r) yields k, and count_keys(b, r) is the number of
\* keys iter_keys(b, r) yields.
C31_ContainsAgreesWithExtant ==
    \A b \in DOMAIN table_branches, r \in Revs :
        /\ \A k \in CacheKeys :
               ContainsNow(k, b, r) = "True" <=> k \in IterNow(b, r)
        /\ CountNow(b, r) = Cardinality(IterNow(b, r))

\* The half of C31 on count_keys
CountAgreesWithExtant ==
    \A b \in DOMAIN table_branches, r \in Revs :
        CountNow(b, r) = Cardinality(IterNow(b, r))

\* The keys retrieve(k, b, r) returns a value for, asked of the present state
Retrievable(b, r) ==
    {k \in CacheKeys : RetrieveNow(k, b, r).exc = "none"}

\* C32: in every reachable cache state and for every (b, r), iter_keys(b, r)
\* yields exactly the keys retrieve(k, b, r) returns a value for, those
\* inherited from the ancestors of b included.
C32_ExtantIsRetrievable ==
    \A b \in DOMAIN table_branches, r \in Revs :
        IterNow(b, r) = Retrievable(b, r)

\* C32 for the caches no tombstone was ever stored in, by a store or by the
\* retrieve of a missing key.  It fails as well: _forward_keycache seeds the
\* index of the branch asked for from the ancestry of the cursor
ExtantIsRetrievableWithoutTombstones ==
    (/\ \A e \in DOMAIN written : written[e] \notin {None, "raised"}
     /\ \A e \in DOMAIN shallower : shallower[e] # None)
    => C32_ExtantIsRetrievable

\* --------------------------------------------- claims on the EdgesCache
\* The history of edge e in branch b in an index of the EdgesCache
HistoryOf(index, e, b) == At(At(index, e, EmptyMap), b, EmptyWindowDict)

\* The branches some index of the EdgesCache has a history of edge e in
BranchesOf(C, e) ==
    DOMAIN At(C.keys, e, EmptyMap) \cup DOMAIN At(C.predecessors, e, EmptyMap)

\* C33: after any stores into an EdgesCache, accepted or rejected, direct or
\* made by a retrieve, the predecessors history of every edge and branch
\* holds the same (revision, value) entries as the forward history, a falsy
\* flag being the tombstone in both.
C33_PredecessorsMirror ==
    \A e \in CacheEdges : \A b \in BranchesOf(ecache, e) :
        WEntries(HistoryOf(ecache.predecessors, e, b))
        = WEntries(HistoryOf(ecache.keys, e, b))

\* A store that returns keeps the mirror of its edge and branch, and both
\* histories hold the entry stored
PredecessorsMirrorKept ==
    [][(op'.name = "edges_store" /\ exc' = "none") =>
          LET e == op'.arg[1]
              b == op'.arg[2]
              fwd(C) == WEntries(HistoryOf(C.keys, e, b))
              pred(C) == WEntries(HistoryOf(C.predecessors, e, b))
          IN  pred(ecache) = fwd(ecache)
              => /\ pred(ecache') = fwd(ecache')
                 /\ \E i \in 1..Len(fwd(ecache')) :
                        fwd(ecache')[i]
                        = <<op'.arg[3], IF ret' = "False" THEN None ELSE ret'>>]_vars

\* --------------------------------------------- reads through the ancestry
\* The branches on the ancestry of b, b included
Lineage(b) ==
    {active_branches_of(table_branches, b, 0)[i][1]
     : i \in 1..Len(active_branches_of(table_branches, b, 0))}

\* C34: a read at (b, r) that falls back on an ancestor consults it at
\* min(r, parent_rev), so it never returns a value written at a revision
\* greater than r: whenever retrieve(k, b, r) returns a value, k was stored
\* in b or in an ancestor of b at a revision at or before r.
C34_NoLookAhead ==
    \A k \in CacheKeys, b \in DOMAIN table_branches, r \in Revs :
        RetrieveNow(k, b, r).exc = "none"
        => \E e \in DOMAIN written :
              /\ e[1] = k
              /\ e[2] \in Lineage(b)
              /\ e[3] <= r

\* C34 for the reads at or after the fork of every branch on the ancestry
NoLookAheadAfterFork ==
    \A k \in CacheKeys, b \in DOMAIN table_branches, r \in Revs :
        (/\ RetrieveNow(k, b, r).exc = "none"
         /\ \A x \in Lineage(b) : r >= table_branches[x][2])
        => \E e \in DOMAIN written :
              /\ e[1] = k
              /\ e[2] \in Lineage(b)
              /\ e[3] <= r

\* ------------------------------------------------ claims on the globals
\* C35: after globl[k] = v, reading k gives v, from persistence as from the
\* mapping, whether the row of k was inserted or updated.
C35_GlobalRoundTrip ==
    (op.name = "global_set" /\ exc = "none")
    => /\ global_get(globl, op.arg[1]).exc = "none"
       /\ global_get(globl, op.arg[1]).v = op.arg[2]

\* C35 with sqlite3
GlobalRoundTripSqlite ==
    (op.name = "global_set" /\ exc = "none" /\ ~alchemist)
    => /\ global_get(globl, op.arg[1]).exc = "none"
       /\ global_get(globl, op.arg[1]).v = op.arg[2]

\* C35 for a key that had no row
GlobalRoundTripInsert ==
    [][(op'.name = "global_set" /\ exc' = "none"
        /\ global_get(globl, op'.arg[1]).exc = "KeyError")
       => /\ global_get(globl', op'.arg[1]).exc = "none"
          /\ global_get(globl', op'.arg[1]).v = op'.arg[2]]_vars

\* ------------------------------------------------ seeking a WindowDict
\* The operations of a WindowDict that only look
WindowReads ==
    {"wd_seek", "wd_get", "wd_has_exact_rev", "wd_rev_before", "wd_rev_after"}

\* _past holds the revisions up to r and _future those after r
SplitAt(h, r) ==
    /\ \A i \in 1..Len(h.past) : h.past[i][1] <= r
    /\ \A i \in 1..Len(h.future) : h.future[i][1] > r

\* C36: after seek(rev) every entry of _past has a revision <= rev and every
\* entry of _future a revision > rev; seek, lookup, has_exact_rev, rev_before
\* and rev_after add, remove and change no entry: they only move entries
\* between the two stacks, in order.
C36_SeekFrame ==
    [][(op'.name \in WindowReads) =>
          /\ WEntries(wd') = WEntries(wd)
          /\ op'.name = "wd_seek" => SplitAt(wd', op'.arg)]_vars

\* A seek to revision 1 has split a history of revisions 0, 1, 2
C36_Witness ==
    /\ op.name = "wd_seek"
    /\ op.arg = 1
    /\ WRevs(wd) = {0, 1, 2}
    /\ Len(wd.past) = 2
    /\ Len(wd.future) = 1

\* ------------------------------------------------ rejected cache writes
\* The revisions the history of (k, b) holds in the index given
HeldRevs(index, k, b) == WRevs(HistoryOf(index, k, b))

\* C37: store(k, b, r, v) is rejected only when the history of (k, b)
\* already holds a revision greater than r; what is stored for other keys
\* never makes a store of k fail.  The call is recognised by the entry of
\* written it changes.
C37_OwnHistoryOnly ==
    [][(op'.name = "store" /\ exc' # "none") =>
          \A e \in DOMAIN written' :
              (e[1] = op'.arg /\ (e \notin DOMAIN written \/ written[e] # written'[e]))
              => \E q \in HeldRevs(keys, e[1], e[2]) : q > e[3]]_vars

\* The entries of every history of a Cache and its exact answers, whatever
\* the split of each history between _past and _future
CacheEntries(C) ==
    [keys |-> [k \in CacheKeys |->
                  [b \in BranchNames |-> WEntries(HistoryOf(C.keys, k, b))]],
     branches |-> [k \in CacheKeys |->
                  [b \in BranchNames |->
                      WEntries(At(C.branches[k], b, EmptyWindowDict))]],
     shallow |-> [k \in CacheKeys |->
                  [b \in BranchNames |->
                      WEntries(At(C.shallow, <<k, b>>, EmptyWindowDict))]],
     shallower |-> C.shallower,
     keycache |-> [b \in BranchNames |->
                      WEntries(At(C.keycache, b, EmptyWindowDict))]]

CacheStateNext ==
    [keys |-> keys', branches |-> branches', shallow |-> shallow',
     shallower |-> shallower', keycache |-> keycache']

\* C38: whenever Cache.store raises, no history index, exact answer or extant
\* set has changed.
C38_StoreAllOrNothing ==
    [][(op'.name = "store" /\ exc' # "none") =>
          CacheEntries(CacheStateNext) = CacheEntries(CacheState)]_vars

\* C38 for the stores rejected by the history of their own key: the first
\* write of Cache.store raises and nothing was written before it
OwnHistoryRejectionChangesNothing ==
    [][(op'.name = "store" /\ exc' # "none") =>
          \A e \in DOMAIN written' :
              (/\ e[1] = op'.arg
               /\ (e \notin DOMAIN written \/ written[e] # written'[e])
               /\ \E q \in HeldRevs(keys, e[1], e[2]) : q > e[3])
              => CacheEntries(CacheStateNext) = CacheEntries(CacheState)]_vars

\* ------------------------------------------------ reads that miss
\* C39: retrieve(k, b, r) of a key with no entry on the ancestry of (b, r),
\* here a key with no entry at all, raises KeyError and leaves the histories
\* and the extant index as they were: afterwards no iter_keys yields k.
C39_MissChangesNothing ==
    [][(op'.name = "retrieve" /\ op'.arg \notin DOMAIN keys) =>
          /\ exc' = "KeyError"
          /\ CacheEntries(CacheStateNext) = CacheEntries(CacheState)
          /\ \A b \in DOMAIN table_branches, r \in Revs :
                 op'.arg \notin
                     Cache_iter_keys(CacheStateNext, walk_now, b, r).v]_vars

\* The part of C39 on the exception: the retrieve of a key never stored
\* raises, KeyError unless the tombstone it stores is refused
MissRaises ==
    [][(op'.name = "retrieve" /\ op'.arg \notin DOMAIN keys) =>
          exc' \in {"KeyError", "ValueError"}]_vars

\* ------------------------------------------------ edges and their nodes
\* n in g.node and y in g.adj[x] at the cursor
NodeNow(n) == NodeHas(n, branch, rev).v = "True"
EdgeNow(x, y) == SuccHas(edges_cache, table_branches, x, y, branch, rev) = "True"

\* C40: at every cursor the facade reaches, an edge that exists has both of
\* its endpoints existing; in particular no edge incident to a deleted node
\* exists.
C40_EdgesNeedEndpoints ==
    \A p \in Pairs : EdgeNow(p[1], p[2]) => NodeNow(p[1]) /\ NodeNow(p[2])

\* C40 right after add_edge: the edge and both of its endpoints exist
AddEdgeMakesEndpoints ==
    (op.name = "add_edge" /\ exc = "none")
    => /\ EdgeNow(op.arg[1], op.arg[2])
       /\ NodeNow(op.arg[1])
       /\ NodeNow(op.arg[2])

\* The part of C40 on deletion alone
NoEdgeAtDeletedNode ==
    (op.name = "node_del" /\ exc = "none")
    => \A p \in Pairs : op.arg \in {p[1], p[2]} => ~EdgeNow(p[1], p[2])


====
